---- MODULE Spec2Model ----
(***************************************************************************)
(* Verification model of the path tracer's core:                           *)
(*   - the job scheduler of src/jobs/mod.rs (thread pool, job queue,       *)
(*     JobCounter fence, ThreadWakeEvent) driven by the real-time loop of  *)
(*     run() in src/lib.rs                      (specification Spec);      *)
(*   - the tile grid of run() and the buffer addressing of trace() in      *)
(*     src/trace.rs                             (specification SpecGrid);  *)
(*   - the progressive accumulation of trace() and clear_buffer()          *)
(*                                              (specification SpecAccum); *)
(*   - the recursive estimator color() of src/trace.rs                     *)
(*                                              (specification SpecColor); *)
(*   - BvhNode::from_list / BvhNode::hit against HitableList::hit          *)
(*                                              (specification SpecBvh);   *)
(*   - the pure functions round_down_to_closest_factor,                    *)
(*     AxisAlignedRect::new, AABB::get_union and the Vec3 operators        *)
(*                                              (specification SpecMath);  *)
(*   - the grid loop of run() that creates the tile jobs                   *)
(*                                              (specification SpecSetup); *)
(*   - one JobCounter with a waiter on an arbitrary value                  *)
(*                                         (specification FairSpecWait);   *)
(*   - the pool destroyed while a batch is queued                          *)
(*                                              (specification SpecDrop);  *)
(*   - a batch that holds every task handle twice                          *)
(*                                            (specification SpecShared);  *)
(*   - the recursion of BvhNode::from_list on the length of its list       *)
(*                                        (specification FairSpecBuild);   *)
(*   - SceneOutput.window_lock and remaining_tasks under the tile jobs     *)
(*                                        (specification FairSpecTiles);   *)
(*   - offline mode on the scheduler: one dispatch, completion polled      *)
(*                                      (specification FairSpecOffline).   *)
(* Floating point values are modelled by exact integers or rationals.      *)
(* Every specification moves the variables of its own part and leaves the  *)
(* variables of the other parts at their idle values.                      *)
(***************************************************************************)
EXTENDS Integers, Sequences, FiniteSets, TLC

VARIABLES
    \* ---- scheduler (src/jobs/mod.rs) ----
    queue,        \* JobQueue.queue: sequence of job descriptors
    counters,     \* the JobCounter of every dispatch so far (sequence of values)
    wake,         \* ThreadWakeEvent.value.0
    is_running,   \* JobThreadHandle.is_running, per worker
    wpc,          \* position of each worker in JobThread::run
    spins,        \* local `spins` of each worker
    cur,          \* the descriptor a worker popped
    jobLock,      \* RwLock around each JobTask: 0 free, else the holder
    \* ---- orchestrator (run() in src/lib.rs) ----
    mainpc,       \* position of the orchestrator thread
    numJobs,      \* jobs.len()
    pushed,       \* descriptors pushed by the running push_job_array
    scene,        \* SceneState fields the loop mutates
    sceneReaders, \* workers holding scene_state.read()
    num_frames,   \* TraceSceneBatchJob.num_frames per tile job
    bufferWritten,\* the output buffer holds pixels written since it was (re)created
    destroyIdx,   \* threads handled so far by the running loop of ThreadPool::destroy
    executed,     \* per job of the current batch: completed run() calls
    panicked,     \* per job of the current batch: run() calls that panicked
    decremented,  \* per job of the current batch: counter decrements
    \* ---- tile grid and buffer addressing (src/lib.rs, src/trace.rs) ----
    image_size,   \* (nx, ny)
    realtime,     \* config.realtime
    batch,        \* two distinct TraceSceneBatchJob of the grid
    pixel_cursor, \* per job: pixels its trace() has gone through
    written,      \* per job: output-buffer element indices its trace() has written
    \* ---- progressive accumulation (src/trace.rs) ----
    batch_num_frames,     \* TraceSceneBatchJob.num_frames of one tile job
    num_frames_per_pixel, \* TraceSceneBatchJob.num_frames_per_pixel
    buffer,               \* one colour channel of the tile's pixels, as a fraction
    rendered,             \* per pixel: renders since the last clear_buffer()
    sampleSum,            \* per pixel: sum of the samples rendered since the clear
    lastWeight,           \* per pixel: denominator of the weight of its latest render
    lastSample,           \* per pixel: the sample of its latest render
    clearedOver,          \* per pixel: the last clear dropped a non-zero value
    brightUsed,           \* non-zero samples drawn so far
    skipsUsed,            \* pixel skips drawn so far
    \* ---- color() (src/trace.rs) ----
    config,       \* Config of the run
    color_pc,     \* position in the chain of color() calls of one camera ray
    depth,        \* `depth` of the innermost color() call
    sky_brightness,   \* SceneState.sky_brightness, in presses of the P key
    disable_emissive, \* SceneState.disable_emissive
    material,     \* emitted radiance and attenuation of the scattering surfaces
    outcome,      \* what the latest hit test of the chain led to
    hit_emitted,  \* `emitted` of the surface that hit test found
    ret,          \* the value the latest return of the chain returned
    \* ---- BVH (src/bvh.rs, src/hitable.rs, src/rect.rs, src/math/aabb.rs) ----
    prims,        \* the primitive list given to from_list and to HitableList::new
    bvh,          \* the tree built by BvhNode::from_list
    ray,          \* the latest ray queried
    t_range,      \* (t_min, t_max) of the latest query
    bvh_hit,      \* result of BvhNode::hit
    list_hit,     \* result of HitableList::hit
    bvh_pc,       \* "built" before the query, then "queried"
    \* ---- pure functions (src/math/mod.rs, src/math/aabb.rs, src/math/vec3.rs, src/rect.rs) ----
    fn_called,    \* the function under call
    fn_args,      \* its arguments
    fn_result,    \* what it returned; <<>> before the call
    \* ---- tile setup (the grid loop of run() in src/lib.rs) ----
    setup_size,   \* image_size = (nx, ny)
    probe,        \* one pixel of the image, followed through the loop
    task_xy,      \* (task_x, task_y) of the next turn of the loop
    jobs_len,     \* jobs.len()
    covers,       \* tiles created so far that contain the probe pixel
    setup_pc,     \* "loop" inside the grid loop, "after_loop" behind it
    \* ---- one JobCounter and its waiter (src/jobs/mod.rs) ----
    jc_counter,   \* JobCounter.counter
    jc_value,     \* `value` given to wait_for_counter
    jc_pending,   \* jobs of the batch that have not called decrement yet
    jc_pc,        \* the waiting thread: "wait", "wait_blocked" or "returned"
    \* ---- the recursion of BvhNode::from_list (src/bvh.rs) ----
    build_stack,  \* the from_list calls that wait for a recursive call: list
                  \* length and which half is being built
    build_arg,    \* length of the list given to the innermost call
    build_pc,     \* "call", "return", "done" or "stack_overflow"
    \* ---- SceneOutput and the tile jobs' trace() (src/trace.rs, src/lib.rs) ----
    out_realtime,    \* config.realtime
    num_tasks_xy,    \* tile jobs per row and per column of the grid
    window_lock,     \* SceneOutput.window_lock
    remaining_tasks, \* SceneOutput.remaining_tasks
    trace_completed, \* run()'s local of that name
    done_reports,    \* how often the completion branch of the poll was taken
    out_frame,       \* calls of dispatch_jobs so far
    task_pc,         \* per tile job: where its trace() stands
    task_row         \* per tile job: the row j its loop is at

schedVars == <<queue, counters, wake, is_running, wpc, spins, cur, jobLock>>
mainVars  == <<mainpc, numJobs, pushed, scene, sceneReaders, num_frames,
               bufferWritten, destroyIdx, executed, panicked, decremented>>
gridVars  == <<image_size, realtime, batch, pixel_cursor, written>>
accumVars == <<batch_num_frames, num_frames_per_pixel, buffer, rendered, sampleSum,
               lastWeight, lastSample, clearedOver, brightUsed, skipsUsed>>
colorVars == <<config, color_pc, depth, sky_brightness, disable_emissive, material,
               outcome, hit_emitted, ret>>
bvhVars   == <<prims, bvh, ray, t_range, bvh_hit, list_hit, bvh_pc>>
mathVars  == <<fn_called, fn_args, fn_result>>
setupVars == <<setup_size, probe, task_xy, jobs_len, covers, setup_pc>>
waitVars  == <<jc_counter, jc_value, jc_pending, jc_pc>>
buildVars == <<build_stack, build_arg, build_pc>>
outVars   == <<out_realtime, num_tasks_xy, window_lock, remaining_tasks, trace_completed,
               done_reports, out_frame, task_pc, task_row>>
auxVars   == <<mathVars, setupVars, waitVars, buildVars, outVars>>
vars == <<schedVars, mainVars, gridVars, accumVars, colorVars, bvhVars, auxVars>>

(***************************************************************************)
(* Bounds of the model.                                                    *)
(***************************************************************************)
\* worker threads: num_cpus::get().max(1) in ThreadPool::new, on a two-core machine
NumWorkers == 2
\* largest batch handed to dispatch_jobs
MaxJobs == 2
\* dispatches (frames of the real-time loop) explored
MaxBatches == 1

(***************************************************************************)
(* Program constants.                                                      *)
(***************************************************************************)
\* const SPINS_BEFORE_SLEEP: i32 = 20 in JobThread::run
SPINS_BEFORE_SLEEP == 20

Workers == 1..NumWorkers
JobIds  == 1..MaxJobs
NoJob   == [job |-> 0, ctr |-> 0]
Keys    == {"none", "O", "P", "B", "W"}

(***************************************************************************)
(* Pure helpers of the scheduler.                                          *)
(***************************************************************************)
\* usize::MAX, the value an AtomicUsize wraps to (largest model integer)
USIZE_MAX == 2147483647

\* AtomicUsize::fetch_sub(1): wrapping subtraction
FetchSub1(v) == IF v = 0 THEN USIZE_MAX ELSE v - 1

\* mutant: the counter is created one short of the batch size
JobCounterNewOneShort(count) == count - 1

\* JobCounter::new(count)
JobCounterNew(count) == count

\* mutant: the wait is satisfied one decrement early
CounterReachedOffByOne(current, value) == current = value + 1

\* the test of `counter.compare_and_swap(value, 1, ..) != value` in wake_on_value
CounterReached(current, value) == current = value

\* JobDescriptor::new(job, job_counter)
JobDescriptorNew(j, c) == [job |-> j, ctr |-> c]

\* `spins > SPINS_BEFORE_SLEEP` in JobThread::run
ShouldSleep(s) == s > SPINS_BEFORE_SLEEP

\* Condvar::notify_all of ThreadWakeEvent::wake_threads: every worker blocked
\* in sleep_thread leaves condvar.wait and returns to the top of its loop
NotifyAll(pcs) == [w \in Workers |-> IF pcs[w] = "asleep" THEN "loop" ELSE pcs[w]]

\* Condvar::notify_one of JobCounter::decrement: the orchestrator, the only
\* waiter, leaves condvar.wait and re-tests the counter
NotifyOne(pc) == IF pc = "wait_blocked" THEN "wait" ELSE pc

\* the job counter handed out by the latest dispatch
CurrentCounter == Len(counters)

ZeroPerJob == [j \in JobIds |-> 0]

(***************************************************************************)
(* Idle values: the state of a part of the program that a specification    *)
(* does not run.                                                           *)
(***************************************************************************)
NoHit == [hit |-> FALSE, t |-> 0]

SchedIdle ==
    /\ queue = <<>>
    /\ counters = <<>>
    /\ wake = FALSE
    /\ is_running = [w \in Workers |-> TRUE]
    /\ wpc = [w \in Workers |-> "loop"]
    /\ spins = [w \in Workers |-> 0]
    /\ cur = [w \in Workers |-> NoJob]
    /\ jobLock = [j \in JobIds |-> 0]
    /\ mainpc = "loop"
    /\ numJobs = 0
    /\ pushed = 0
    /\ scene = [time0 |-> 0, time1 |-> 1, sky_brightness |-> 0,
                disable_emissive |-> FALSE, cam |-> 0]
    /\ sceneReaders = {}
    /\ num_frames = ZeroPerJob
    /\ bufferWritten = FALSE
    /\ destroyIdx = 0
    /\ executed = ZeroPerJob
    /\ panicked = ZeroPerJob
    /\ decremented = ZeroPerJob

GridIdle ==
    /\ image_size = <<0, 0>>
    /\ realtime = TRUE
    /\ batch = <<>>
    /\ pixel_cursor = <<>>
    /\ written = <<>>

AccumIdle ==
    /\ batch_num_frames = 0
    /\ num_frames_per_pixel = <<>>
    /\ buffer = <<>>
    /\ rendered = <<>>
    /\ sampleSum = <<>>
    /\ lastWeight = <<>>
    /\ lastSample = <<>>
    /\ clearedOver = <<>>
    /\ brightUsed = 0
    /\ skipsUsed = 0

ColorIdle ==
    /\ config = [realtime |-> TRUE, max_depth |-> 0, spp |-> 0]
    /\ color_pc = "idle"
    /\ depth = 0
    /\ sky_brightness = 0
    /\ disable_emissive = FALSE
    /\ material = [emitted |-> 0, attenuation |-> 0]
    /\ outcome = "none"
    /\ hit_emitted = 0
    /\ ret = 0

BvhIdle ==
    /\ prims = <<>>
    /\ bvh = <<>>
    /\ ray = <<>>
    /\ t_range = <<>>
    /\ bvh_hit = NoHit
    /\ list_hit = NoHit
    /\ bvh_pc = "idle"

MathIdle ==
    /\ fn_called = "none"
    /\ fn_args = <<>>
    /\ fn_result = <<>>

SetupIdle ==
    /\ setup_size = <<0, 0>>
    /\ probe = <<0, 0>>
    /\ task_xy = <<0, 0>>
    /\ jobs_len = 0
    /\ covers = 0
    /\ setup_pc = "idle"

WaitIdle ==
    /\ jc_counter = 0
    /\ jc_value = 0
    /\ jc_pending = 0
    /\ jc_pc = "idle"

BuildIdle ==
    /\ build_stack = <<>>
    /\ build_arg = 0
    /\ build_pc = "idle"

OutIdle ==
    /\ out_realtime = TRUE
    /\ num_tasks_xy = <<0, 0>>
    /\ window_lock = FALSE
    /\ remaining_tasks = 0
    /\ trace_completed = FALSE
    /\ done_reports = 0
    /\ out_frame = 0
    /\ task_pc = <<>>
    /\ task_row = <<>>

AuxIdle == MathIdle /\ SetupIdle /\ WaitIdle /\ BuildIdle /\ OutIdle

(***************************************************************************)
(* Init: the state when run() enters its loop in real-time mode.  The pool *)
(* is a lazy_static; its threads exist and spin from the first use on.     *)
(***************************************************************************)
Init ==
    /\ queue = <<>>
    /\ counters = <<>>
    /\ wake = FALSE
    /\ is_running = [w \in Workers |-> TRUE]
    /\ wpc = [w \in Workers |-> "loop"]
    /\ spins = [w \in Workers |-> 0]
    /\ cur = [w \in Workers |-> NoJob]
    /\ jobLock = [j \in JobIds |-> 0]
    /\ mainpc = "loop"
    /\ numJobs \in 0..MaxJobs
    /\ pushed = 0
    /\ scene = [time0 |-> 0, time1 |-> 1, sky_brightness |-> 0,
                disable_emissive |-> FALSE, cam |-> 0]
    /\ sceneReaders = {}
    /\ num_frames = ZeroPerJob
    /\ bufferWritten = FALSE
    /\ destroyIdx = 0
    /\ executed = ZeroPerJob
    /\ panicked = ZeroPerJob
    /\ decremented = ZeroPerJob
    /\ GridIdle /\ AccumIdle /\ ColorIdle /\ BvhIdle /\ AuxIdle

(***************************************************************************)
(* Worker threads: JobThread::run.                                         *)
(***************************************************************************)
\* `while *self.is_running.read()`
CheckRunning(w) ==
    /\ wpc[w] = "loop"
    /\ wpc' = [wpc EXCEPT ![w] = IF is_running[w] THEN "pop" ELSE "stopped"]
    /\ UNCHANGED <<gridVars, accumVars, colorVars, bvhVars, auxVars>>
    /\ UNCHANGED <<queue, counters, wake, is_running, spins, cur, jobLock, mainVars>>

\* mutant: the queue hands out its newest descriptor (pop_back)
PopSomeFromBack(w) ==
    /\ wpc[w] = "pop"
    /\ queue # <<>>
    /\ cur' = [cur EXCEPT ![w] = queue[Len(queue)]]
    /\ queue' = SubSeq(queue, 1, Len(queue) - 1)
    /\ wpc' = [wpc EXCEPT ![w] = "run"]
    /\ UNCHANGED <<gridVars, accumVars, colorVars, bvhVars, auxVars>>
    /\ UNCHANGED <<counters, wake, is_running, spins, jobLock, mainVars>>

\* `match self.queue.pop()`: Some(job_descriptor)
PopSome(w) ==
    /\ wpc[w] = "pop"
    /\ queue # <<>>
    /\ cur' = [cur EXCEPT ![w] = Head(queue)]
    /\ queue' = Tail(queue)
    /\ wpc' = [wpc EXCEPT ![w] = "run"]
    /\ UNCHANGED <<gridVars, accumVars, colorVars, bvhVars, auxVars>>
    /\ UNCHANGED <<counters, wake, is_running, spins, jobLock, mainVars>>

\* `match self.queue.pop()`: None, then the test `if spins > SPINS_BEFORE_SLEEP`
PopNone(w) ==
    /\ wpc[w] = "pop"
    /\ queue = <<>>
    /\ spins' = [spins EXCEPT ![w] = @ + 1]
    /\ wpc' = [wpc EXCEPT ![w] = IF ShouldSleep(spins'[w]) THEN "sleep" ELSE "loop"]
    /\ UNCHANGED <<gridVars, accumVars, colorVars, bvhVars, auxVars>>
    /\ UNCHANGED <<queue, counters, wake, is_running, cur, jobLock, mainVars>>

\* ThreadWakeEvent::sleep_thread: condvar.wait(&mut lock.lock())
SleepThread(w) ==
    /\ wpc[w] = "sleep"
    /\ wpc' = [wpc EXCEPT ![w] = "asleep"]
    /\ UNCHANGED <<gridVars, accumVars, colorVars, bvhVars, auxVars>>
    /\ UNCHANGED <<queue, counters, wake, is_running, spins, cur, jobLock, mainVars>>

\* mutant: a worker whose is_running was cleared drops the job it popped
RunBeginUnlessStopped(w) ==
    /\ wpc[w] = "run"
    /\ IF is_running[w]
         THEN /\ jobLock[cur[w].job] = 0
              /\ jobLock' = [jobLock EXCEPT ![cur[w].job] = w]
              /\ num_frames' = [num_frames EXCEPT ![cur[w].job] = @ + 1]
              /\ sceneReaders' = sceneReaders \cup {w}
              /\ wpc' = [wpc EXCEPT ![w] = "running"]
              /\ UNCHANGED cur
         ELSE /\ cur' = [cur EXCEPT ![w] = NoJob]
              /\ wpc' = [wpc EXCEPT ![w] = "loop"]
              /\ UNCHANGED <<jobLock, num_frames, sceneReaders>>
    /\ UNCHANGED <<gridVars, accumVars, colorVars, bvhVars, auxVars>>
    /\ UNCHANGED <<queue, counters, wake, is_running, spins, mainpc, numJobs,
                   pushed, scene, bufferWritten, destroyIdx, executed, panicked,
                   decremented>>

\* mutant: run() is entered without the task's write guard
RunBeginNoLock(w) ==
    /\ wpc[w] = "run"
    /\ jobLock' = [jobLock EXCEPT ![cur[w].job] = w]
    /\ num_frames' = [num_frames EXCEPT ![cur[w].job] = @ + 1]
    /\ sceneReaders' = sceneReaders \cup {w}
    /\ wpc' = [wpc EXCEPT ![w] = "running"]
    /\ UNCHANGED <<gridVars, accumVars, colorVars, bvhVars, auxVars>>
    /\ UNCHANGED <<queue, counters, wake, is_running, spins, cur, mainpc, numJobs,
                   pushed, scene, bufferWritten, destroyIdx, executed, panicked,
                   decremented>>

\* JobDescriptor::run: self.job.write(), then TraceSceneBatchJob::trace up to
\* `self.shared_scene_read_state.read()`
RunBegin(w) ==
    /\ wpc[w] = "run"
    /\ jobLock[cur[w].job] = 0
    /\ jobLock' = [jobLock EXCEPT ![cur[w].job] = w]
    /\ num_frames' = [num_frames EXCEPT ![cur[w].job] = @ + 1]
    /\ sceneReaders' = sceneReaders \cup {w}
    /\ wpc' = [wpc EXCEPT ![w] = "running"]
    /\ UNCHANGED <<gridVars, accumVars, colorVars, bvhVars, auxVars>>
    /\ UNCHANGED <<queue, counters, wake, is_running, spins, cur, mainpc, numJobs,
                   pushed, scene, bufferWritten, destroyIdx, executed, panicked,
                   decremented>>

\* the rest of trace(): the pixels are written, run() returns, both guards drop
RunEnd(w) ==
    /\ wpc[w] = "running"
    /\ jobLock' = [jobLock EXCEPT ![cur[w].job] = 0]
    /\ sceneReaders' = sceneReaders \ {w}
    /\ bufferWritten' = TRUE
    /\ executed' = [executed EXCEPT ![cur[w].job] = @ + 1]
    /\ wpc' = [wpc EXCEPT ![w] = "decrement"]
    /\ UNCHANGED <<gridVars, accumVars, colorVars, bvhVars, auxVars>>
    /\ UNCHANGED <<queue, counters, wake, is_running, spins, cur, mainpc, numJobs,
                   pushed, scene, num_frames, destroyIdx, panicked, decremented>>

\* run() panics: the stack unwinds, both guards drop, the thread ends; nothing
\* in JobThread::run catches the panic
RunPanic(w) ==
    /\ wpc[w] = "running"
    /\ jobLock' = [jobLock EXCEPT ![cur[w].job] = 0]
    /\ sceneReaders' = sceneReaders \ {w}
    /\ panicked' = [panicked EXCEPT ![cur[w].job] = @ + 1]
    /\ wpc' = [wpc EXCEPT ![w] = "dead"]
    /\ UNCHANGED <<gridVars, accumVars, colorVars, bvhVars, auxVars>>
    /\ UNCHANGED <<queue, counters, wake, is_running, spins, cur, mainpc, numJobs,
                   pushed, scene, num_frames, bufferWritten, destroyIdx, executed,
                   decremented>>

\* job_descriptor.job_counter.decrement(); spins = 0
Decrement(w) ==
    /\ wpc[w] = "decrement"
    /\ counters' = [counters EXCEPT ![cur[w].ctr] = FetchSub1(@)]
    /\ mainpc' = IF cur[w].ctr = CurrentCounter THEN NotifyOne(mainpc) ELSE mainpc
    /\ decremented' = [decremented EXCEPT ![cur[w].job] = @ + 1]
    /\ spins' = [spins EXCEPT ![w] = 0]
    /\ cur' = [cur EXCEPT ![w] = NoJob]
    /\ wpc' = [wpc EXCEPT ![w] = "loop"]
    /\ UNCHANGED <<gridVars, accumVars, colorVars, bvhVars, auxVars>>
    /\ UNCHANGED <<queue, wake, is_running, jobLock, numJobs, pushed, scene,
                   sceneReaders, num_frames, bufferWritten, destroyIdx, executed,
                   panicked>>

(***************************************************************************)
(* Orchestrator: the real-time loop of run() and ThreadPool::destroy.      *)
(* THREAD_POOL is a lazy_static, which Rust never drops at process exit;   *)
(* destroy is modelled as it runs whenever the pool is dropped.            *)
(***************************************************************************)
\* scene_state.write() is granted only while no tile job holds the read guard
SceneWritable == sceneReaders = {}

\* batch.write() on every tile job is granted only while no worker runs it
BatchesWritable == \A j \in 1..numJobs : jobLock[j] = 0

\* time0 = time1; time1 += frame_time   (one time unit per frame)
UpdateTimeOf(s) == [s EXCEPT !.time0 = s.time1, !.time1 = s.time1 + 1]

\* the key handlers of the loop: O and P change sky_brightness, B toggles
\* disable_emissive, W (Camera::update_from_input) moves the camera
ApplyKey(s, key) ==
    CASE key = "O" -> [s EXCEPT !.sky_brightness = IF @ - 1 > 0 THEN @ - 1 ELSE 0]
      [] key = "P" -> [s EXCEPT !.sky_brightness = @ + 1]
      [] key = "B" -> [s EXCEPT !.disable_emissive = ~@]
      [] key = "W" -> [s EXCEPT !.cam = 1 - @]
      [] OTHER     -> s

\* `camera_moved || clear_scene`
ClearsScene(key) == key \in {"O", "P", "B", "W"}

\* top of `loop`: in real-time mode the time window moves on
UpdateTime ==
    /\ mainpc = "loop"
    /\ SceneWritable
    /\ scene' = UpdateTimeOf(scene)
    /\ mainpc' = "input"
    /\ UNCHANGED <<gridVars, accumVars, colorVars, bvhVars, auxVars>>
    /\ UNCHANGED <<schedVars, numJobs, pushed, sceneReaders, num_frames, bufferWritten,
                   destroyIdx, executed, panicked, decremented>>

\* poll_events_loop and the key handling: scene mutation, clear_buffer() on
\* every tile job and the replacement of the output buffer
HandleInput(key) ==
    /\ mainpc = "input"
    /\ SceneWritable
    /\ ClearsScene(key) => BatchesWritable
    /\ scene' = ApplyKey(scene, key)
    /\ num_frames' = IF ClearsScene(key) THEN ZeroPerJob ELSE num_frames
    /\ bufferWritten' = IF ClearsScene(key) THEN FALSE ELSE bufferWritten
    /\ mainpc' = "dispatch"
    /\ UNCHANGED <<gridVars, accumVars, colorVars, bvhVars, auxVars>>
    /\ UNCHANGED <<schedVars, numJobs, pushed, sceneReaders, destroyIdx, executed,
                   panicked, decremented>>

\* Jobs::dispatch_jobs -> push_job_array: wake_threads() first, then the counter
Dispatch ==
    /\ mainpc = "dispatch"
    /\ Len(counters) < MaxBatches
    /\ wake' = TRUE
    /\ wpc' = NotifyAll(wpc)
    /\ counters' = Append(counters, JobCounterNew(numJobs))
    /\ pushed' = 0
    /\ executed' = ZeroPerJob
    /\ panicked' = ZeroPerJob
    /\ decremented' = ZeroPerJob
    /\ mainpc' = "push"
    /\ UNCHANGED <<gridVars, accumVars, colorVars, bvhVars, auxVars>>
    /\ UNCHANGED <<queue, is_running, spins, cur, jobLock, numJobs, scene,
                   sceneReaders, num_frames, bufferWritten, destroyIdx>>

\* one turn of `for job in job_tasks`: JobQueue::push
Push ==
    /\ mainpc = "push"
    /\ pushed < numJobs
    /\ queue' = Append(queue, JobDescriptorNew(pushed + 1, CurrentCounter))
    /\ pushed' = pushed + 1
    /\ UNCHANGED <<gridVars, accumVars, colorVars, bvhVars, auxVars>>
    /\ UNCHANGED <<counters, wake, is_running, wpc, spins, cur, jobLock, mainpc,
                   numJobs, scene, sceneReaders, num_frames, bufferWritten,
                   destroyIdx, executed, panicked, decremented>>

\* push_job_array returns the counter; run() calls wait_for_counter(&counter, 0)
PushDone ==
    /\ mainpc = "push"
    /\ pushed = numJobs
    /\ mainpc' = "wait"
    /\ UNCHANGED <<gridVars, accumVars, colorVars, bvhVars, auxVars>>
    /\ UNCHANGED <<schedVars, numJobs, pushed, scene, sceneReaders, num_frames,
                   bufferWritten, destroyIdx, executed, panicked, decremented>>

\* JobCounter::wake_on_value(0), under the counter's mutex: the compare-and-swap
\* either hits (the counter becomes 1 and the wait returns) or the thread
\* blocks in condvar.wait
WakeOnValue ==
    /\ mainpc = "wait"
    /\ IF CounterReached(counters[CurrentCounter], 0)
         THEN /\ counters' = [counters EXCEPT ![CurrentCounter] = 1]
              /\ mainpc' = "frame_end"
         ELSE /\ mainpc' = "wait_blocked"
              /\ UNCHANGED counters
    /\ UNCHANGED <<gridVars, accumVars, colorVars, bvhVars, auxVars>>
    /\ UNCHANGED <<queue, wake, is_running, wpc, spins, cur, jobLock, numJobs, pushed,
                   scene, sceneReaders, num_frames, bufferWritten, destroyIdx,
                   executed, panicked, decremented>>

\* end of the loop body: next frame
NextFrame ==
    /\ mainpc = "frame_end"
    /\ mainpc' = "loop"
    /\ UNCHANGED <<gridVars, accumVars, colorVars, bvhVars, auxVars>>
    /\ UNCHANGED <<schedVars, numJobs, pushed, scene, sceneReaders, num_frames,
                   bufferWritten, destroyIdx, executed, panicked, decremented>>

\* `if user_input.exit_requested { .. break }`; the model goes on to the pool's
\* Drop (ThreadPool::destroy), the only caller of stop() and join()
ExitRequested ==
    /\ mainpc = "frame_end"
    /\ mainpc' = "stop"
    /\ destroyIdx' = 0
    /\ UNCHANGED <<gridVars, accumVars, colorVars, bvhVars, auxVars>>
    /\ UNCHANGED <<schedVars, numJobs, pushed, scene, sceneReaders, num_frames,
                   bufferWritten, executed, panicked, decremented>>

\* ThreadPool::destroy, first loop: thread.stop() clears is_running
Stop ==
    /\ mainpc = "stop"
    /\ IF destroyIdx < NumWorkers
         THEN /\ is_running' = [is_running EXCEPT ![destroyIdx + 1] = FALSE]
              /\ destroyIdx' = destroyIdx + 1
              /\ UNCHANGED mainpc
         ELSE /\ mainpc' = "join"
              /\ destroyIdx' = 0
              /\ UNCHANGED is_running
    /\ UNCHANGED <<gridVars, accumVars, colorVars, bvhVars, auxVars>>
    /\ UNCHANGED <<queue, counters, wake, wpc, spins, cur, jobLock, numJobs, pushed,
                   scene, sceneReaders, num_frames, bufferWritten, executed, panicked,
                   decremented>>

\* ThreadPool::destroy, second loop: thread_handle.join().unwrap() returns once
\* the thread has ended, and panics when the thread ended by a panic
Join ==
    /\ mainpc = "join"
    /\ IF destroyIdx = NumWorkers
         THEN mainpc' = "done" /\ UNCHANGED destroyIdx
         ELSE /\ wpc[destroyIdx + 1] \in {"stopped", "dead"}
              /\ IF wpc[destroyIdx + 1] = "dead"
                   THEN mainpc' = "panicked" /\ UNCHANGED destroyIdx
                   ELSE destroyIdx' = destroyIdx + 1 /\ UNCHANGED mainpc
    /\ UNCHANGED <<gridVars, accumVars, colorVars, bvhVars, auxVars>>
    /\ UNCHANGED <<schedVars, numJobs, pushed, scene, sceneReaders, num_frames,
                   bufferWritten, executed, panicked, decremented>>

WorkerStep(w) ==
    \/ CheckRunning(w)
    \/ PopSome(w)
    \/ PopNone(w)
    \/ SleepThread(w)
    \/ RunBegin(w)
    \/ RunEnd(w)
    \/ RunPanic(w)
    \/ Decrement(w)

MainStep ==
    \/ UpdateTime
    \/ \E key \in Keys : HandleInput(key)
    \/ Dispatch
    \/ Push
    \/ PushDone
    \/ WakeOnValue
    \/ NextFrame
    \/ ExitRequested
    \/ Stop
    \/ Join

Next ==
    \/ \E w \in Workers : WorkerStep(w)
    \/ MainStep

Spec == Init /\ [][Next]_vars

(***************************************************************************)
(* The same machine with jobs that never panic and with every thread       *)
(* scheduled fairly (each thread that can take a step eventually does).    *)
(***************************************************************************)
WorkerStepNoPanic(w) ==
    \/ CheckRunning(w)
    \/ PopSome(w)
    \/ PopNone(w)
    \/ SleepThread(w)
    \/ RunBegin(w)
    \/ RunEnd(w)
    \/ Decrement(w)

NextNoPanic ==
    \/ \E w \in Workers : WorkerStepNoPanic(w)
    \/ MainStep

FairSpec ==
    /\ Init
    /\ [][NextNoPanic]_vars
    /\ WF_vars(MainStep)
    /\ \A w \in Workers : WF_vars(WorkerStepNoPanic(w))

(***************************************************************************)
(* Claims about the scheduler.                                             *)
(***************************************************************************)
\* the latest wait_for_counter(counter, 0) has returned and no later batch
\* has been dispatched
WaitReturned ==
    /\ Len(counters) >= 1
    /\ mainpc \in {"frame_end", "loop", "input", "dispatch", "stop", "join", "done",
                   "panicked"}

\* a popped job that has not yet finished its run()
Executing(w) == wpc[w] \in {"run", "running"}

\* no job of a dispatched batch is queued or executing
NoJobInFlight == queue = <<>> /\ \A w \in Workers : ~Executing(w)

\* C1 (fence safety): once wait_for_counter(counter, 0) has returned, each of
\* the K jobs of the batch has completed its run() exactly once, and no job is
\* ever completed twice.
C1_FenceSafety ==
    /\ WaitReturned => \A j \in 1..numJobs : executed[j] = 1
    /\ \A j \in JobIds : executed[j] <= 1

\* C1 witness: the wait on a batch of MaxJobs >= 1 jobs has returned.
C1_Witness ==
    /\ WaitReturned
    /\ numJobs = MaxJobs
    /\ \A j \in 1..numJobs : executed[j] = 1 /\ decremented[j] = 1

\* C2 (dispatch liveness), its safety half: in no reachable state is the job
\* queue non-empty while every worker is blocked in sleep_thread and the
\* producer has no wake_threads() left to call before it waits.
C2_NoLostWakeup ==
    (queue # <<>> /\ \A w \in Workers : wpc[w] = "asleep")
        => mainpc \in {"loop", "input", "dispatch", "frame_end"}

\* the worker that dequeued job j is done with it: its run() has ended and the
\* worker is past the decrement (or its thread has ended)
JobLeftWorker(j) ==
    /\ executed[j] + panicked[j] = 1
    /\ \A w \in Workers : ~(wpc[w] = "decrement" /\ cur[w].job = j)

\* C3 (decrement on every exit path): a dequeued job whose run() has ended,
\* normally or by a panic, has had its counter decremented exactly once.
C3_DecrementOnEveryExit ==
    \A j \in JobIds : JobLeftWorker(j) => decremented[j] = 1

\* descriptor d was pushed before descriptor e: batches are pushed one after
\* the other, and push_job_array pushes the jobs of a batch in list order
PushedBefore(d, e) == d.ctr < e.ctr \/ (d.ctr = e.ctr /\ d.job < e.job)

\* C21 (FIFO, each job once): the queue holds the descriptors in the order
\* of their pushes, without repetition; every descriptor a worker holds was
\* pushed before everything still queued, so pop returned the oldest one; no
\* two workers hold the same descriptor; every descriptor pushed is either
\* still queued, or held by one worker, or was handed out once and is done
\* with; and pop on the empty queue can always return None.
C21_FifoEachJobOnce ==
    /\ \A i, k \in 1..Len(queue) : i < k => PushedBefore(queue[i], queue[k])
    /\ \A w \in Workers : cur[w] # NoJob =>
          /\ \A i \in 1..Len(queue) : PushedBefore(cur[w], queue[i])
          /\ \A v \in Workers \ {w} : cur[v] # cur[w]
    /\ \A j \in 1..pushed :
          Cardinality({i \in 1..Len(queue) : queue[i].job = j})
            + Cardinality({w \in Workers : cur[w].job = j /\ wpc[w] # "dead"})
            + decremented[j] + panicked[j] = 1
    /\ \A w \in Workers : (wpc[w] = "pop" /\ queue = <<>>) => ENABLED PopNone(w)

\* C21 witness: a worker holds the first job of a batch while the second is
\* still queued.
C21_Witness ==
    \E w \in Workers :
        /\ cur[w] # NoJob
        /\ queue # <<>>
        /\ PushedBefore(cur[w], Head(queue))

(***************************************************************************)
(* The pool dropped while a batch is queued: ThreadPool::destroy runs      *)
(* right after push_job_array, concurrently with the workers.              *)
(***************************************************************************)
InitDrop ==
    /\ numJobs \in 1..MaxJobs
    /\ queue = [i \in 1..numJobs |-> JobDescriptorNew(i, 1)]
    /\ counters = <<JobCounterNew(numJobs)>>
    /\ wake = TRUE
    /\ is_running = [w \in Workers |-> TRUE]
    /\ wpc = [w \in Workers |-> "loop"]
    /\ spins = [w \in Workers |-> 0]
    /\ cur = [w \in Workers |-> NoJob]
    /\ jobLock = [j \in JobIds |-> 0]
    /\ mainpc = "stop"
    /\ pushed = numJobs
    /\ scene = [time0 |-> 0, time1 |-> 1, sky_brightness |-> 0,
                disable_emissive |-> FALSE, cam |-> 0]
    /\ sceneReaders = {}
    /\ num_frames = ZeroPerJob
    /\ bufferWritten = FALSE
    /\ destroyIdx = 0
    /\ executed = ZeroPerJob
    /\ panicked = ZeroPerJob
    /\ decremented = ZeroPerJob
    /\ GridIdle /\ AccumIdle /\ ColorIdle /\ BvhIdle /\ AuxIdle

NextDrop ==
    \/ \E w \in Workers : WorkerStep(w)
    \/ Stop
    \/ Join

SpecDrop == InitDrop /\ [][NextDrop]_vars

\* C22 (no cancellation mid-job): a worker gives up the job it popped only by
\* the decrement of its counter, which it reaches only through the end of
\* run(); it re-checks is_running only when it holds no job; and the step of
\* stop() that clears is_running leaves a worker that holds a job, and the
\* job, where they are.
C22_NoCancelMidJob ==
    [][\A w \in Workers :
         /\ (cur[w] # NoJob /\ cur'[w] = NoJob) =>
               /\ wpc[w] = "decrement"
               /\ executed[cur[w].job] >= 1
               /\ decremented'[cur[w].job] = decremented[cur[w].job] + 1
         /\ (wpc[w] # "decrement" /\ wpc'[w] = "decrement") =>
               executed'[cur[w].job] = executed[cur[w].job] + 1
         /\ (wpc[w] = "loop" /\ wpc'[w] \in {"pop", "stopped"}) => cur[w] = NoJob
         /\ (cur[w] # NoJob /\ is_running'[w] # is_running[w]) =>
               (wpc'[w] = wpc[w] /\ cur'[w] = cur[w] /\ queue' = queue)
      ]_vars

\* C22 witness: a worker whose is_running was cleared while it held a job has
\* finished the job's run() and is about to decrement its counter.
C22_Witness ==
    \E w \in Workers :
        /\ ~is_running[w]
        /\ wpc[w] = "decrement"
        /\ executed[cur[w].job] = 1

(***************************************************************************)
(* The same task handle queued twice: Jobs::dispatch_jobs on an array that *)
(* holds every tile job two times, the workers running the queue while the *)
(* orchestrator handles a key.                                             *)
(***************************************************************************)
InitShared ==
    /\ numJobs \in 1..MaxJobs
    /\ queue = [i \in 1..(2 * numJobs) |-> JobDescriptorNew(((i - 1) % numJobs) + 1, 1)]
    /\ counters = <<JobCounterNew(2 * numJobs)>>
    /\ wake = TRUE
    /\ is_running = [w \in Workers |-> TRUE]
    /\ wpc = [w \in Workers |-> "loop"]
    /\ spins = [w \in Workers |-> 0]
    /\ cur = [w \in Workers |-> NoJob]
    /\ jobLock = [j \in JobIds |-> 0]
    /\ mainpc = "input"
    /\ pushed = numJobs
    /\ scene = [time0 |-> 0, time1 |-> 1, sky_brightness |-> 0,
                disable_emissive |-> FALSE, cam |-> 0]
    /\ sceneReaders = {}
    /\ num_frames = ZeroPerJob
    /\ bufferWritten = FALSE
    /\ destroyIdx = 0
    /\ executed = ZeroPerJob
    /\ panicked = ZeroPerJob
    /\ decremented = ZeroPerJob
    /\ GridIdle /\ AccumIdle /\ ColorIdle /\ BvhIdle /\ AuxIdle

NextShared ==
    \/ \E w \in Workers : WorkerStep(w)
    \/ \E key \in Keys : HandleInput(key)

SpecShared == InitShared /\ [][NextShared]_vars

\* the threads inside run() of tile job j
InRun(j) == {w \in Workers : wpc[w] = "running" /\ cur[w].job = j}

\* C30 (a task runs on one thread at a time): no step leads to a state where
\* two workers are inside run() of the same tile job, and the orchestrator's
\* clear_buffer() runs on a tile job only while no worker is inside its run().
C30_TaskRunsExclusively ==
    [][/\ \A j \in 1..numJobs : Cardinality({w \in Workers : wpc'[w] = "running" /\ cur'[w].job = j}) <= 1
       /\ (\E key \in Keys : ClearsScene(key) /\ HandleInput(key))
             => \A j \in 1..numJobs : InRun(j) = {}
      ]_vars

\* C30 witness: a worker is inside run() of a tile job while another worker
\* has popped the second descriptor of the same job and stands before its
\* run().
C30_Witness ==
    \E w, v \in Workers :
        /\ w # v
        /\ wpc[w] = "running"
        /\ wpc[v] = "run"
        /\ cur[v].job = cur[w].job

\* C5 (mutation between batches): every step of the loop that mutates the
\* SceneState, clears the tile jobs or replaces the output buffer is taken in
\* a state where no job of a dispatched batch is queued or executing, and the
\* wait on every batch dispatched so far has returned.
C5_MutationBetweenBatches ==
    [][(UpdateTime \/ \E key \in Keys : HandleInput(key))
          => (NoJobInFlight /\ (Len(counters) = 0 \/ WaitReturned))]_vars

\* C5 witness: after a returned wait on a non-empty batch the loop has moved
\* the time window and cleared the tile jobs and the buffer.
C5_Witness ==
    /\ Len(counters) = 1
    /\ numJobs >= 1
    /\ mainpc = "dispatch"
    /\ scene.time1 = 3
    /\ scene.cam = 1
    /\ \A j \in 1..numJobs : num_frames[j] = 0
    /\ ~bufferWritten

\* C6 (shutdown completes): once destroy has cleared every is_running flag,
\* every worker leaves its loop and every join returns.
C6_ShutdownCompletes ==
    (mainpc = "join" /\ \A w \in Workers : ~is_running[w]) ~> (mainpc = "done")

(***************************************************************************)
(* Tile grid of run() and buffer addressing of TraceSceneBatchJob::trace.  *)
(***************************************************************************)
\* largest image side explored
MaxDim == 18

\* the 9 of `let task_dim_xy = (nx / 9, ny / 9)`
GridDivisor == 9

\* the 4 of `buffer_size_elements = (nx*ny*4)`
BufferChannels == 4

\* the 3 of `stride`, `start` and `index` in trace(): elements written per pixel
PixelStride == 3

\* image sides explored: nx and ny are drawn independently
ImageDims == {GridDivisor, MaxDim}

Max2(a, b) == IF a > b THEN a ELSE b

\* nx and ny of run(): `let nx: u32 = 500`
NX == 500

\* The pairs (factor_to_round, factor_of) for which the f64 product
\* (1.0 - fract) * factor_to_round of round_down_to_closest_factor falls just
\* below the integer factor_to_round - factor_of mod factor_to_round, so that
\* its floor is one less.  Evaluated in IEEE-754 double arithmetic for every
\* factor_of <= 13 and for the pair run() uses, (NX / GridDivisor, NX).
F64RoundsBelow ==
    {<<3, 5>>, <<3, 7>>, <<5, 8>>, <<5, 9>>, <<7, 9>>, <<3, 10>>, <<6, 10>>,
     <<5, 11>>, <<9, 11>>, <<5, 13>>, <<7, 13>>, <<NX \div GridDivisor, NX>>}

\* math::round_down_to_closest_factor, computed in f64 by the code.  A zero
\* factor_to_round gives factor = inf, fract = NaN, and `NaN as i32` = 0, so
\* the result is max(0, 1).  Otherwise fract = 0 exactly when factor_to_round
\* divides factor_of, and `scaled` is floor((1.0 - fract) * factor_to_round).
round_down_to_closest_factor(factor_to_round, factor_of) ==
    IF factor_to_round = 0
      THEN 1
      ELSE IF factor_of % factor_to_round = 0
        THEN factor_to_round
        ELSE LET product == factor_to_round - (factor_of % factor_to_round)
                 scaled == IF <<factor_to_round, factor_of>> \in F64RoundsBelow
                             THEN product - 1 ELSE product
             IN  Max2(factor_to_round - scaled, 1)

\* task_dim_xy of run(), per axis
TaskDim(n) == round_down_to_closest_factor(n \div GridDivisor, n)

\* num_tasks_xy of run(), per axis
NumTasks(n) == n \div TaskDim(n)

\* buffer_size_elements
BufferSizeElements(size) == size[1] * size[2] * BufferChannels

\* TraceSceneBatchJob::new for the task (task_x, task_y) of the grid loop
BatchNew(task_x, task_y, size) ==
    LET dim_x == TaskDim(size[1])
        dim_y == TaskDim(size[2])
        start_xy == <<dim_x * task_x, dim_y * task_y>>
        end_xy == <<start_xy[1] + dim_x, start_xy[2] + dim_y>>
    IN  [start_xy |-> start_xy, end_xy |-> end_xy, image_size |-> size,
         num_pixels_xy |-> <<end_xy[1] - start_xy[1], end_xy[2] - start_xy[2]>>]

\* the jobs pushed by `for task_y .. for task_x ..`, numbered in push order
GridJob(t, size) == BatchNew(t % NumTasks(size[1]), t \div NumTasks(size[1]), size)

\* num_tasks
NumGridJobs(size) == NumTasks(size[1]) * NumTasks(size[2])

\* pixels one trace() goes through
NumPixels(b) == b.num_pixels_xy[1] * b.num_pixels_xy[2]

\* mutant: the row offset uses the tile's width instead of the image's
RowStartTileWidth(b, j) == b.start_xy[1] * PixelStride + j * b.num_pixels_xy[1] * PixelStride

\* `start` of trace(): first buffer element of image row j inside the tile
RowStart(b, j) == b.start_xy[1] * PixelStride + j * b.image_size[1] * PixelStride

\* the elements trace() writes for its k-th pixel (k from 0): rows run from
\* end_xy.1 - 1 down to start_xy.1, columns from start_xy.0 upwards
PixelElements(b, k) ==
    LET row_idx == k \div b.num_pixels_xy[1]
        col_idx == k % b.num_pixels_xy[1]
        j == b.end_xy[2] - 1 - row_idx
        index == col_idx * PixelStride
    IN  {RowStart(b, j) + index + c : c \in 0..(PixelStride - 1)}

TwoJobs == 1..2

InitGrid ==
    /\ image_size \in ImageDims \X ImageDims
    /\ realtime \in BOOLEAN
    /\ \E t1, t2 \in 0..(NumGridJobs(image_size) - 1) :
         /\ t1 < t2
         /\ batch = <<GridJob(t1, image_size), GridJob(t2, image_size)>>
    /\ pixel_cursor = <<0, 0>>
    /\ written = <<{}, {}>>
    /\ SchedIdle /\ AccumIdle /\ ColorIdle /\ BvhIdle /\ AuxIdle

\* one turn of the column loop of trace() that renders the pixel and stores
\* its three elements
TracePixel(b) ==
    /\ pixel_cursor[b] < NumPixels(batch[b])
    /\ written' = [written EXCEPT ![b] = @ \cup PixelElements(batch[b], pixel_cursor[b])]
    /\ pixel_cursor' = [pixel_cursor EXCEPT ![b] = @ + 1]
    /\ UNCHANGED <<image_size, realtime, batch>>
    /\ UNCHANGED <<schedVars, mainVars, accumVars, colorVars, bvhVars, auxVars>>

\* one turn of the column loop that takes the `continue` of
\* `config.realtime && rand() < CHANCE_TO_SKIP_PER_FRAME`
SkipPixel(b) ==
    /\ realtime
    /\ pixel_cursor[b] < NumPixels(batch[b])
    /\ pixel_cursor' = [pixel_cursor EXCEPT ![b] = @ + 1]
    /\ UNCHANGED <<image_size, realtime, batch, written>>
    /\ UNCHANGED <<schedVars, mainVars, accumVars, colorVars, bvhVars, auxVars>>

NextGrid ==
    \E b \in TwoJobs :
        \/ TracePixel(b)
        \/ SkipPixel(b)

SpecGrid == InitGrid /\ [][NextGrid]_vars

\* C4 (disjoint tile writes): the buffer elements written by two distinct tile
\* jobs of the grid are disjoint, and every element written lies inside the
\* shared buffer of nx*ny*4 elements.
C4_DisjointTileWrites ==
    /\ written[1] \cap written[2] = {}
    /\ \A b \in TwoJobs : \A e \in written[b] :
         e >= 0 /\ e < BufferSizeElements(image_size)

\* C4 witness: two tiles of more than one row and column each have been
\* rendered completely, every pixel with its three elements.
C4_Witness ==
    /\ \A b \in TwoJobs :
         /\ batch[b].num_pixels_xy[1] > 1 /\ batch[b].num_pixels_xy[2] > 1
         /\ pixel_cursor[b] = NumPixels(batch[b])
         /\ Cardinality(written[b]) = PixelStride * NumPixels(batch[b])
    /\ image_size[1] = MaxDim

(***************************************************************************)
(* Progressive accumulation of TraceSceneBatchJob::trace in real-time mode *)
(* and clear_buffer(), for one tile job.  A colour channel is an exact     *)
(* fraction [n, d] in lowest terms.                                        *)
(***************************************************************************)
\* pixels of the tile (num_pixels_xy.0 * num_pixels_xy.1)
TilePixels == 2
\* frames traced between two clears
MaxFrames == 1002
\* random draws that leave the common case (a rendered pixel with a zero
\* sample): pixels skipped, and frames in which some sample is non-zero
MaxEvents == 2

\* the 1000 of `if self.num_frames_per_pixel[local_pixel_idx] <= 1000 {1} else {0}`
FRAME_COUNT_LIMIT == 1000

Pixels == 1..TilePixels

RECURSIVE Gcd(_, _)
Gcd(a, b) == IF b = 0 THEN a ELSE Gcd(b, a % b)

\* the fraction n/d in lowest terms (n >= 0, d > 0)
Frac(n, d) == LET g == Gcd(n, d) IN [n |-> n \div g, d |-> d \div g]

\* mutant: the counter stops one frame early
FrameCountStepEarly(c) == c + (IF c < FRAME_COUNT_LIMIT THEN 1 ELSE 0)

\* `num_frames_per_pixel[idx] += if num_frames_per_pixel[idx] <= 1000 {1} else {0}`
FrameCountStep(c) == c + (IF c <= FRAME_COUNT_LIMIT THEN 1 ELSE 0)

\* `col * weight + dest * one_minus_weight` with weight = 1.0 / num_frames
Blend(col, old, frames) ==
    Frac(col * old.d + old.n * (frames - 1), old.d * frames)

\* mutant: clear_buffer() resets num_frames only
ClearedCountersKept(counters_) == counters_

\* `self.num_frames_per_pixel = vec![0; ..]` of clear_buffer()
ClearedCounters(counters_) == [p \in DOMAIN counters_ |-> 0]

InitAccum ==
    /\ batch_num_frames = 0
    /\ num_frames_per_pixel = [p \in Pixels |-> 0]
    /\ buffer = [p \in Pixels |-> Frac(0, 1)]
    /\ rendered = [p \in Pixels |-> 0]
    /\ sampleSum = [p \in Pixels |-> 0]
    /\ lastWeight = [p \in Pixels |-> 0]
    /\ lastSample = [p \in Pixels |-> 0]
    /\ clearedOver = [p \in Pixels |-> FALSE]
    /\ brightUsed = 0
    /\ skipsUsed = 0
    /\ SchedIdle /\ GridIdle /\ ColorIdle /\ BvhIdle /\ AuxIdle

\* what the frame draws for each pixel: "skip" or the sample color() returns
FrameDraws == [Pixels -> {"skip", "dark", "bright"}]

NumDrawn(draw, kind) == Cardinality({p \in Pixels : draw[p] = kind})

SampleOf(kind) == IF kind = "bright" THEN 1 ELSE 0

\* one run of trace() in real-time mode over every pixel of the tile
Trace(draw) ==
    /\ batch_num_frames < MaxFrames
    /\ skipsUsed + NumDrawn(draw, "skip")
         + brightUsed + (IF NumDrawn(draw, "bright") > 0 THEN 1 ELSE 0) <= MaxEvents
    /\ batch_num_frames' = batch_num_frames + 1
    /\ num_frames_per_pixel' =
         [p \in Pixels |-> IF draw[p] = "skip" THEN num_frames_per_pixel[p]
                           ELSE FrameCountStep(num_frames_per_pixel[p])]
    /\ buffer' =
         [p \in Pixels |-> IF draw[p] = "skip" THEN buffer[p]
                           ELSE Blend(SampleOf(draw[p]), buffer[p],
                                      num_frames_per_pixel'[p])]
    /\ rendered' = [p \in Pixels |-> rendered[p] + (IF draw[p] = "skip" THEN 0 ELSE 1)]
    /\ sampleSum' = [p \in Pixels |-> sampleSum[p] + SampleOf(draw[p])]
    /\ lastWeight' = [p \in Pixels |-> IF draw[p] = "skip" THEN lastWeight[p]
                                       ELSE num_frames_per_pixel'[p]]
    /\ lastSample' = [p \in Pixels |-> IF draw[p] = "skip" THEN lastSample[p]
                                       ELSE SampleOf(draw[p])]
    /\ skipsUsed' = skipsUsed + NumDrawn(draw, "skip")
    /\ brightUsed' = brightUsed + (IF NumDrawn(draw, "bright") > 0 THEN 1 ELSE 0)
    /\ UNCHANGED clearedOver
    /\ UNCHANGED <<schedVars, mainVars, gridVars, colorVars, bvhVars, auxVars>>

\* `if camera_moved || clear_scene` of run(): clear_buffer() on the tile job
\* and the replacement of the output buffer by zeros
ClearBuffer ==
    /\ batch_num_frames > 0
    /\ batch_num_frames' = 0
    /\ num_frames_per_pixel' = ClearedCounters(num_frames_per_pixel)
    /\ clearedOver' = [p \in Pixels |-> buffer[p].n # 0]
    /\ buffer' = [p \in Pixels |-> Frac(0, 1)]
    /\ rendered' = [p \in Pixels |-> 0]
    /\ sampleSum' = [p \in Pixels |-> 0]
    /\ lastWeight' = [p \in Pixels |-> 0]
    /\ lastSample' = [p \in Pixels |-> 0]
    /\ UNCHANGED <<brightUsed, skipsUsed>>
    /\ UNCHANGED <<schedVars, mainVars, gridVars, colorVars, bvhVars, auxVars>>

NextAccum ==
    \/ \E draw \in FrameDraws : Trace(draw)
    \/ ClearBuffer

SpecAccum == InitAccum /\ [][NextAccum]_vars

\* the latest stored value of pixel p is the arithmetic mean of the samples
\* rendered since the last clear
IsRunningMean(p) == buffer[p].n * rendered[p] = sampleSum[p] * buffer[p].d

\* C9 as stated (running mean without upper limit): the n-th render of a pixel
\* since the last clear blends with weight 1/n for every n >= 1, and the
\* stored value is the mean of the n samples.
C9_RunningMeanUnbounded ==
    \A p \in Pixels : rendered[p] >= 1 =>
        (lastWeight[p] = rendered[p] /\ IsRunningMean(p))

\* C9 amended (running mean up to the counter's limit): the n-th render of a
\* pixel since the last clear blends with weight 1/n while n <= 1001, and the
\* stored value is then the mean of the n samples; from the 1002nd render on
\* the per-pixel counter stays at 1001 and the weight stays 1/1001.
C9_RunningMeanUpToLimit ==
    \A p \in Pixels : rendered[p] >= 1 =>
        IF rendered[p] <= FRAME_COUNT_LIMIT + 1
          THEN lastWeight[p] = rendered[p] /\ IsRunningMean(p)
          ELSE lastWeight[p] = FRAME_COUNT_LIMIT + 1

\* C9 witness: a pixel with one bright sample has been rendered 1002 times and
\* its latest render used the weight 1/1001.
C9_Witness ==
    \E p \in Pixels :
        /\ rendered[p] = FRAME_COUNT_LIMIT + 2
        /\ lastWeight[p] = FRAME_COUNT_LIMIT + 1
        /\ sampleSum[p] = 1

\* C10 (clear resets the accumulation): right after clear_buffer() num_frames
\* and every per-pixel counter of the tile are zero, and the first render of
\* a pixel after the clear uses weight 1 and stores exactly its sample.
C10_ClearResets ==
    /\ batch_num_frames = 0 =>
         \A p \in Pixels : num_frames_per_pixel[p] = 0
    /\ \A p \in Pixels : rendered[p] = 1 =>
         (lastWeight[p] = 1 /\ buffer[p] = Frac(lastSample[p], 1))

\* C10 witness: a pixel whose non-zero value was dropped by the clear has been
\* rendered once since, with a zero sample, and holds zero.
C10_Witness ==
    \E p \in Pixels :
        /\ clearedOver[p]
        /\ rendered[p] = 1
        /\ lastSample[p] = 0
        /\ buffer[p] = Frac(0, 1)

(***************************************************************************)
(* The chain of color() calls that trace() starts for one camera ray.      *)
(***************************************************************************)
\* the 100 of `if depth < 100` in color()
COLOR_DEPTH_LIMIT == 100

\* Config::new(): the real-time defaults
ConfigNew == [realtime |-> TRUE, max_depth |-> 10, spp |-> 1]

\* Config::from_cmdline with and without "-offline"
ConfigFromCmdline(offline) ==
    IF offline
      THEN [ConfigNew EXCEPT !.realtime = FALSE, !.max_depth = 50, !.spp = 100]
      ELSE ConfigNew

\* `if depth < 100`
MayScatter(d) == d < COLOR_DEPTH_LIMIT

\* largest sky_brightness explored, in presses of the P key (0.05 each)
MaxSkySteps == 1

\* largest emitted radiance of a surface, in units of 0.025
MaxRadiance == 1

\* the scattering surfaces of the scene: what their emitted() returns and the
\* attenuation their scatter() returns
Materials == [emitted : 0..MaxRadiance, attenuation : 0..1]

\* `emitted` of color(): `if !disable_emissive {mat.emitted(..)} else {0.0}`
Emitted(e) == IF ~disable_emissive THEN e ELSE 0

\* red channel of lerp(white, sky, t) = (1 - t) * 1.0 + t * 0.5 for a ray
\* pointing straight down (t = 0) or straight up (t = 1), in units of 0.5
SkyLerp(t) == (1 - t) * 2 + t * 1

\* the value of the miss branch: lerp(&white, &sky, t) * sky_brightness, in
\* units of 0.025
SkyRadiance(t) == SkyLerp(t) * sky_brightness

InitColor ==
    /\ config \in {ConfigFromCmdline(offline) : offline \in BOOLEAN}
    /\ sky_brightness \in 0..MaxSkySteps
    /\ disable_emissive \in BOOLEAN
    /\ material \in Materials
    /\ color_pc = "idle"
    /\ depth = 0
    /\ outcome = "none"
    /\ hit_emitted = 0
    /\ ret = 0
    /\ SchedIdle /\ GridIdle /\ AccumIdle /\ BvhIdle /\ AuxIdle

\* trace(): `col += color(&r, &read_state.world, 0, ..)`
ColorCall ==
    /\ color_pc = "idle"
    /\ color_pc' = "entered"
    /\ depth' = 0
    /\ outcome' = "none"
    /\ hit_emitted' = 0
    /\ ret' = 0
    /\ UNCHANGED <<config, sky_brightness, disable_emissive, material>>
    /\ UNCHANGED <<schedVars, mainVars, gridVars, accumVars, bvhVars, auxVars>>

\* world.hit(..) is None: the sky colour times sky_brightness is returned
ColorMiss(t) ==
    /\ color_pc = "entered"
    /\ color_pc' = "returned"
    /\ outcome' = "miss"
    /\ hit_emitted' = 0
    /\ ret' = SkyRadiance(t)
    /\ UNCHANGED <<config, sky_brightness, disable_emissive, material, depth>>
    /\ UNCHANGED <<schedVars, mainVars, gridVars, accumVars, bvhVars, auxVars>>

\* a hit with depth < 100 whose material scatters: color(.., depth + 1, ..)
ColorScatter ==
    /\ color_pc = "entered"
    /\ MayScatter(depth)
    /\ depth' = depth + 1
    /\ outcome' = "scatter"
    /\ hit_emitted' = Emitted(material.emitted)
    /\ UNCHANGED <<config, sky_brightness, disable_emissive, material, color_pc, ret>>
    /\ UNCHANGED <<schedVars, mainVars, gridVars, accumVars, bvhVars, auxVars>>

\* a hit with depth < 100 on a surface emitting e whose material does not
\* scatter: `return Vec3::new_zero_vector()`
ColorAbsorb(e) ==
    /\ color_pc = "entered"
    /\ MayScatter(depth)
    /\ color_pc' = "returned"
    /\ outcome' = "no_scatter"
    /\ hit_emitted' = Emitted(e)
    /\ ret' = 0
    /\ UNCHANGED <<config, sky_brightness, disable_emissive, material, depth>>
    /\ UNCHANGED <<schedVars, mainVars, gridVars, accumVars, bvhVars, auxVars>>

\* a hit with depth >= 100 on a surface emitting e: the zero vector
ColorDepthLimit(e) ==
    /\ color_pc = "entered"
    /\ ~MayScatter(depth)
    /\ color_pc' = "returned"
    /\ outcome' = "depth_limit"
    /\ hit_emitted' = Emitted(e)
    /\ ret' = 0
    /\ UNCHANGED <<config, sky_brightness, disable_emissive, material, depth>>
    /\ UNCHANGED <<schedVars, mainVars, gridVars, accumVars, bvhVars, auxVars>>

\* the innermost call returns: to the call that scattered, which returns
\* `emitted + attenuation * color(..)`, and at last to trace()
ColorReturn ==
    /\ color_pc = "returned"
    /\ IF depth > 0
         THEN /\ depth' = depth - 1
              /\ outcome' = "scatter"
              /\ hit_emitted' = Emitted(material.emitted)
              /\ ret' = Emitted(material.emitted) + material.attenuation * ret
              /\ UNCHANGED color_pc
         ELSE /\ color_pc' = "idle"
              /\ UNCHANGED <<depth, outcome, hit_emitted, ret>>
    /\ UNCHANGED <<config, sky_brightness, disable_emissive, material>>
    /\ UNCHANGED <<schedVars, mainVars, gridVars, accumVars, bvhVars, auxVars>>

NextColor ==
    \/ ColorCall
    \/ \E t \in {0, 1} : ColorMiss(t)
    \/ ColorScatter
    \/ \E e \in 0..MaxRadiance : ColorAbsorb(e)
    \/ \E e \in 0..MaxRadiance : ColorDepthLimit(e)
    \/ ColorReturn

SpecColor == InitColor /\ [][NextColor]_vars

\* C7 (recursion depth bound): color() is never entered with a depth greater
\* than the max_depth of the run configuration.
C7_DepthWithinMaxDepth ==
    color_pc = "entered" => depth <= config.max_depth

\* the depth of the color() call whose hit test `outcome` describes: the
\* call that scattered is the caller of the innermost one
HitDepth == IF color_pc = "entered" THEN depth - 1 ELSE depth

\* C18 (emission without scatter): a color() call whose ray hits a surface
\* that does not scatter returns exactly the radiance the surface emits.
C18_NoScatterReturnsEmitted ==
    (color_pc = "returned" /\ outcome = "no_scatter") => ret = hit_emitted

\* C19 (termination at max_depth): a color() call at depth >= max_depth
\* whose ray hits a surface does not scatter further and returns the
\* radiance the surface emits.
C19_EmittedAtMaxDepth ==
    (outcome \in {"scatter", "no_scatter", "depth_limit"} /\ HitDepth >= config.max_depth) =>
        (outcome # "scatter" /\ color_pc = "returned" /\ ret = hit_emitted)

\* C20 (dark sky): a color() call whose ray misses the world returns zero
\* radiance, whatever sky_brightness is.
C20_MissReturnsZero ==
    (color_pc = "returned" /\ outcome = "miss") => ret = 0

(***************************************************************************)
(* BvhNode::from_list and BvhNode::hit against HitableList::hit, over      *)
(* axis-aligned rectangles.  Lengths are integers in units of 0.0001;      *)
(* ray directions have components 1 or -1, so 1.0 / direction[i] is        *)
(* direction[i] and every product and quotient of the code is exact.       *)
(***************************************************************************)
\* longest primitive list
MaxPrims == 3
\* side of the rectangles and spacing of the ray origins
RectSide == 100

\* the 0.0001 of AxisAlignedRect::bounding_box
BOX_PADDING == 1
\* the 0.001 of `world.hit(r, 0.001, f64::MAX)` in color()
T_MIN == 10
\* f64::MAX of the same call: larger than every distance of the model
T_MAX == 1000000

Axes == 1..3

\* AxisAlignedRect::new over the sides of the cube [0, RectSide]^3
Rects ==
    [plane_axis : Axes, amin : {0}, amax : {RectSide}, bmin : {0}, bmax : {RectSide},
     c : {0, RectSide}]

Origins == {-RectSide, 0, RectSide}

Rays == [origin : Origins \X Origins \X Origins, direction : {-1, 1} \X {-1, 1} \X {-1, 1}]

Ranges == {<<T_MIN, T_MAX>>, <<T_MIN, RectSide>>}

\* the axes of the a and b coordinates of a rectangle (get_ab_intersection)
AxisA(plane_axis) == IF plane_axis = 1 THEN 2 ELSE 1
AxisB(plane_axis) == IF plane_axis = 3 THEN 2 ELSE 3

\* AxisAlignedRect::hit
AxisAlignedRectHit(rect, r, t_min, t_max) ==
    LET t == (rect.c - r.origin[rect.plane_axis]) * r.direction[rect.plane_axis]
        a == r.origin[AxisA(rect.plane_axis)] + t * r.direction[AxisA(rect.plane_axis)]
        b == r.origin[AxisB(rect.plane_axis)] + t * r.direction[AxisB(rect.plane_axis)]
    IN  IF t < t_min \/ t > t_max
          THEN NoHit
          ELSE IF a < rect.amin \/ a > rect.amax \/ b < rect.bmin \/ b > rect.bmax
            THEN NoHit
            ELSE [hit |-> TRUE, t |-> t]

\* AxisAlignedRect::bounding_box
RectBoundingBox(rect) ==
    [min |-> [i \in Axes |-> IF i = rect.plane_axis THEN rect.c - BOX_PADDING
                             ELSE IF i = AxisA(rect.plane_axis) THEN rect.amin
                             ELSE rect.bmin],
     max |-> [i \in Axes |-> IF i = rect.plane_axis THEN rect.c + BOX_PADDING
                             ELSE IF i = AxisA(rect.plane_axis) THEN rect.amax
                             ELSE rect.bmax]]

\* AABB::hit from axis i on, with the tmin and tmax reached so far
RECURSIVE AABBHitFrom(_, _, _, _, _)
AABBHitFrom(i, box, r, tmin, tmax) ==
    IF i > 3
      THEN TRUE
      ELSE LET inv_d == r.direction[i]
               a0 == (box.min[i] - r.origin[i]) * inv_d
               a1 == (box.max[i] - r.origin[i]) * inv_d
               t0 == IF inv_d < 0 THEN a1 ELSE a0
               t1 == IF inv_d < 0 THEN a0 ELSE a1
               tmin1 == IF t0 > tmin THEN t0 ELSE tmin
               tmax1 == IF t1 < tmax THEN t1 ELSE tmax
           IN  IF tmax1 <= tmin1 THEN FALSE
               ELSE AABBHitFrom(i + 1, box, r, tmin1, tmax1)

\* mutant: the upper corner is built with ffmin
GetUnionMaxByMin(box0, box1) ==
    [min |-> [i \in Axes |-> IF box0.min[i] < box1.min[i] THEN box0.min[i] ELSE box1.min[i]],
     max |-> [i \in Axes |-> IF box0.max[i] < box1.max[i] THEN box0.max[i] ELSE box1.max[i]]]

\* AABB::get_union
GetUnion(box0, box1) ==
    [min |-> [i \in Axes |-> IF box0.min[i] < box1.min[i] THEN box0.min[i] ELSE box1.min[i]],
     max |-> [i \in Axes |-> IF box0.max[i] > box1.max[i] THEN box0.max[i] ELSE box1.max[i]]]

Leaf(rect) == [leaf |-> TRUE, prim |-> rect, box |-> RectBoundingBox(rect)]

\* mutant: the node caches the box of its left child only
BvhNodeNewLeftBox(left, right) ==
    [leaf |-> FALSE, left |-> left, right |-> right, box |-> left.box]

\* the BvhNode that from_list returns for the children left and right
BvhNodeNew(left, right) ==
    [leaf |-> FALSE, left |-> left, right |-> right, box |-> GetUnion(left.box, right.box)]

\* the orders sort_unstable_by can leave the list in: sorted by the minimum
\* of the bounding boxes along the axis, ties (which the comparator calls
\* Greater both ways) in any order
SortedBy(list, axis) ==
    {s \in {[i \in 1..Len(list) |-> list[f[i]]] : f \in Permutations(1..Len(list))} :
        \A i \in 1..(Len(list) - 1) :
            RectBoundingBox(s[i]).min[axis] <= RectBoundingBox(s[i + 1]).min[axis]}

\* mutant: the split point is rounded up
SplitPointRoundedUp(list_length) == (list_length + 1) \div 2

\* `let half = list_length / 2`
SplitPoint(list_length) == list_length \div 2

\* BvhNode::from_list: the trees it can return (random axis at every node)
RECURSIVE FromList(_)
FromList(list) ==
    UNION {
        UNION {
            IF Len(s) = 1
              THEN {BvhNodeNew(Leaf(s[1]), Leaf(s[1]))}
              ELSE IF Len(s) = 2
                THEN {BvhNodeNew(Leaf(s[1]), Leaf(s[2]))}
                ELSE LET half == SplitPoint(Len(s))
                     IN  {BvhNodeNew(l, r) :
                            l \in FromList(SubSeq(s, 1, half)),
                            r \in FromList(SubSeq(s, half + 1, Len(s)))}
            : s \in SortedBy(list, axis)}
        : axis \in Axes}

\* BvhNode::hit; a leaf is the primitive's own hit
RECURSIVE BvhNodeHit(_, _, _, _)
BvhNodeHit(node, r, t_min, t_max) ==
    IF node.leaf
      THEN AxisAlignedRectHit(node.prim, r, t_min, t_max)
      ELSE IF AABBHitFrom(1, node.box, r, t_min, t_max)
        THEN LET left_hit == BvhNodeHit(node.left, r, t_min, t_max)
             IN  IF left_hit.hit
                   THEN LET right_hit == BvhNodeHit(node.right, r, t_min, left_hit.t)
                        IN  IF right_hit.hit THEN right_hit ELSE left_hit
                   ELSE BvhNodeHit(node.right, r, t_min, t_max)
        ELSE NoHit

\* HitableList::hit from element i on, with the closest hit so far
RECURSIVE HitableListHitFrom(_, _, _, _, _, _)
HitableListHitFrom(i, list, r, t_min, closest_so_far, hitrecord) ==
    IF i > Len(list)
      THEN hitrecord
      ELSE LET hit_record == AxisAlignedRectHit(list[i], r, t_min, closest_so_far)
           IN  IF hit_record.hit
                 THEN HitableListHitFrom(i + 1, list, r, t_min, hit_record.t, hit_record)
                 ELSE HitableListHitFrom(i + 1, list, r, t_min, closest_so_far, hitrecord)

\* HitableList::hit
HitableListHit(list, r, t_min, t_max) == HitableListHitFrom(1, list, r, t_min, t_max, NoHit)

InitBvh ==
    /\ prims \in UNION {[1..n -> Rects] : n \in 1..MaxPrims}
    /\ bvh \in FromList(prims)
    /\ ray = <<>>
    /\ t_range = <<>>
    /\ bvh_hit = NoHit
    /\ list_hit = NoHit
    /\ bvh_pc = "built"
    /\ SchedIdle /\ GridIdle /\ AccumIdle /\ ColorIdle /\ AuxIdle

\* world.hit(r, t_min, t_max) on the BVH and on the list of the same primitives
WorldHit(r, range) ==
    /\ bvh_pc = "built"
    /\ ray' = r
    /\ t_range' = range
    /\ bvh_hit' = BvhNodeHit(bvh, r, range[1], range[2])
    /\ list_hit' = HitableListHit(prims, r, range[1], range[2])
    /\ bvh_pc' = "queried"
    /\ UNCHANGED <<prims, bvh>>
    /\ UNCHANGED <<schedVars, mainVars, gridVars, accumVars, colorVars, auxVars>>

NextBvh == \E r \in Rays, range \in Ranges : WorldHit(r, range)

SpecBvh == InitBvh /\ [][NextBvh]_vars

\* C8 (BVH / brute-force equivalence): BvhNode::hit on the tree built from a
\* list reports a miss exactly when HitableList::hit on the list does, and
\* otherwise the same closest distance t.
C8_BvhEqualsList ==
    bvh_pc = "queried" =>
        (bvh_hit.hit = list_hit.hit /\ (bvh_hit.hit => bvh_hit.t = list_hit.t))

\* box `outer` contains box `inner`
Contains(outer, inner) ==
    \A i \in Axes : outer.min[i] <= inner.min[i] /\ inner.max[i] <= outer.max[i]

\* the BvhNodes of a tree
RECURSIVE NodesOf(_)
NodesOf(node) ==
    IF node.leaf THEN {} ELSE {node} \cup NodesOf(node.left) \cup NodesOf(node.right)

\* the primitives below a node, left to right; a node whose two children are
\* one and the same primitive (list_length == 1) counts it once
RECURSIVE LeavesOf(_)
LeavesOf(node) ==
    IF node.leaf
      THEN <<node.prim>>
      ELSE IF node.left.leaf /\ node.right.leaf /\ node.left = node.right
        THEN <<node.left.prim>>
        ELSE LeavesOf(node.left) \o LeavesOf(node.right)

Range(seq) == {seq[i] : i \in 1..Len(seq)}

\* the primitives of the list are pairwise different
Distinct(seq) == Cardinality(Range(seq)) = Len(seq)

\* C23 (cached boxes): every BvhNode of the tree built by from_list caches a
\* box that contains the boxes of both its children and the bounding box of
\* every primitive below it.
C23_NodeBoxContainsSubtree ==
    bvh_pc # "idle" =>
        \A node \in NodesOf(bvh) :
            /\ Contains(node.box, node.left.box)
            /\ Contains(node.box, node.right.box)
            /\ \A prim \in Range(LeavesOf(node)) : Contains(node.box, RectBoundingBox(prim))

\* C23 witness: a tree over three primitives whose root box is larger than
\* the box of either child.
C23_Witness ==
    /\ bvh_pc = "built"
    /\ Len(prims) >= 3
    /\ bvh.box # bvh.left.box
    /\ bvh.box # bvh.right.box

\* C24 (input preserved): the leaves of the tree built from a list of
\* pairwise different primitives are exactly the primitives of the list,
\* each once (a node built from a single primitive holding it as both
\* children); from three primitives on the left subtree holds floor(n/2) of
\* them and the right subtree the others.
C24_LeavesAreTheInput ==
    (bvh_pc # "idle" /\ Distinct(prims)) =>
        /\ Len(LeavesOf(bvh)) = Len(prims)
        /\ Range(LeavesOf(bvh)) = Range(prims)
        /\ Len(prims) = 1 => (bvh.left = bvh.right /\ bvh.left.prim = prims[1])
        /\ Len(prims) >= 3 =>
              /\ Len(LeavesOf(bvh.left)) = Len(prims) \div 2
              /\ Len(LeavesOf(bvh.right)) = Len(prims) - Len(prims) \div 2

\* C24 witness: a tree built from three pairwise different primitives.
C24_Witness ==
    /\ bvh_pc = "built"
    /\ Len(prims) >= 3
    /\ Distinct(prims)
    /\ ~bvh.left.leaf

(***************************************************************************)
(* Pure functions: round_down_to_closest_factor (src/math/mod.rs),         *)
(* AxisAlignedRect::new (src/rect.rs), AABB::get_union (src/math/aabb.rs)  *)
(* and the Vec3 operators (src/math/vec3.rs).  The initial state draws the *)
(* function and its arguments; the action calls it.                        *)
(***************************************************************************)
\* largest factor_of given to round_down_to_closest_factor
MaxFactorOf == 10

\* 1 <= factor_to_round <= factor_of
RoundArgs == {a \in (1..MaxFactorOf) \X (1..MaxFactorOf) : a[1] <= a[2]}

\* const FLT_TOLERANCE: f64 = 0.0000001 of src/rect.rs; the arguments of
\* AxisAlignedRect::new are counted in units of 0.00000001
FLT_TOLERANCE == 10

Abs(x) == IF x < 0 THEN -x ELSE x

\* mutant: only equal bounds are rejected
RectDegenerateExact(lo, hi) == lo = hi

\* the test `(amin - amax).abs() < FLT_TOLERANCE` of AxisAlignedRect::new
RectDegenerate(lo, hi) == Abs(lo - hi) < FLT_TOLERANCE

NoRect == [plane_axis |-> 0, amin |-> 0, amax |-> 0, bmin |-> 0, bmax |-> 0,
           c |-> 0, a_size |-> 0, b_size |-> 0, area |-> 0]

\* AxisAlignedRect::new: panics, or returns the rectangle
AxisAlignedRectNew(amin, amax, bmin, bmax, c, plane_axis) ==
    IF RectDegenerate(amin, amax) \/ RectDegenerate(bmin, bmax)
      THEN [panicked |-> TRUE, rect |-> NoRect]
      ELSE LET a_size == amax - amin
               b_size == bmax - bmin
           IN  [panicked |-> FALSE,
                rect |-> [plane_axis |-> plane_axis, amin |-> amin, amax |-> amax,
                          bmin |-> bmin, bmax |-> bmax, c |-> c, a_size |-> a_size,
                          b_size |-> b_size, area |-> a_size * b_size]]

\* bounds given to AxisAlignedRect::new: on both sides of the tolerance
RectCoords == {0, 1, FLT_TOLERANCE - 1, FLT_TOLERANCE, 2 * FLT_TOLERANCE}

RectNewArgs == RectCoords \X RectCoords \X RectCoords \X RectCoords \X {0} \X Axes

\* largest coordinate of the boxes given to AABB::get_union
MaxCoord == 1

\* the boxes with min <= max on every axis
Boxes ==
    {b \in [min : [Axes -> 0..MaxCoord], max : [Axes -> 0..MaxCoord]] :
        \A i \in Axes : b.min[i] <= b.max[i]}

\* f64 division of two integers: the quotient in lowest terms; x / 0.0 is
\* +inf (n = 1), -inf (n = -1) or NaN (n = 0), all with d = 0
F64Div(a, b) ==
    IF b = 0
      THEN [n |-> IF a > 0 THEN 1 ELSE IF a < 0 THEN -1 ELSE 0, d |-> 0]
      ELSE LET f == Frac(Abs(a), Abs(b))
           IN  [n |-> IF (a < 0) # (b < 0) THEN -f.n ELSE f.n, d |-> f.d]

Vec3Ops == {"add", "sub", "mul", "div"}

\* the f64 operation each family of operators applies to a pair of components
Component(op, a, b) ==
    CASE op = "add" -> a + b
      [] op = "sub" -> a - b
      [] op = "mul" -> a * b
      [] op = "div" -> F64Div(a, b)

\* Vec3::add_vec, sub_vec, mul_vec, div_vec
VecMethod(op, v, rhs) ==
    [x |-> Component(op, v.x, rhs.x), y |-> Component(op, v.y, rhs.y),
     z |-> Component(op, v.z, rhs.z)]

\* Vec3::add_float, sub_float, mul_float, div_float
FloatMethod(op, v, rhs) ==
    [x |-> Component(op, v.x, rhs), y |-> Component(op, v.y, rhs),
     z |-> Component(op, v.z, rhs)]

\* impl ops::Add<Vec3> for Vec3 (likewise Sub, Mul, Div): self.add_vec(&rhs)
OperatorByValue(op, v, rhs) == VecMethod(op, v, rhs)

\* impl ops::Add<&Vec3> for &Vec3, and the two mixed forms: self.add_vec(rhs)
OperatorByRef(op, v, rhs) == VecMethod(op, v, rhs)

\* impl ops::Add<f64> for Vec3 and for &Vec3: self.add_float(rhs)
OperatorFloat(op, v, rhs) == FloatMethod(op, v, rhs)

\* impl ops::Mul<Vec3> for f64: `rhs * self`; for f64 and &Vec3: rhs.mul_float(self)
FloatTimesVec(f, rhs) == OperatorFloat("mul", rhs, f)

\* mutant: the z component is combined with rhs.y
OperatorAssignZFromY(op, v, rhs) ==
    [x |-> Component(op, v.x, rhs.x), y |-> Component(op, v.y, rhs.y),
     z |-> Component(op, v.z, rhs.y)]

\* impl ops::AddAssign for Vec3 (likewise Sub, Mul, Div): self.x += rhs.x; ..
OperatorAssign(op, v, rhs) ==
    [x |-> Component(op, v.x, rhs.x), y |-> Component(op, v.y, rhs.y),
     z |-> Component(op, v.z, rhs.z)]

\* impl ops::AddAssign<f64> for Vec3 (likewise Sub, Mul, Div): self.x += rhs; ..
OperatorAssignFloat(op, v, rhs) ==
    [x |-> Component(op, v.x, rhs), y |-> Component(op, v.y, rhs),
     z |-> Component(op, v.z, rhs)]

\* Vec3::squared_length
SquaredLength(v) == v.x * v.x + v.y * v.y + v.z * v.z

\* every form of one operator family applied to the same operands, and the
\* squared length of the left operand
Vec3Forms(op, a, b, f) ==
    [vec_method |-> VecMethod(op, a, b),
     by_value |-> OperatorByValue(op, a, b),
     by_ref |-> OperatorByRef(op, a, b),
     assign |-> OperatorAssign(op, a, b),
     float_method |-> FloatMethod(op, a, f),
     float_op |-> OperatorFloat(op, a, f),
     float_assign |-> OperatorAssignFloat(op, a, f),
     float_left |-> FloatTimesVec(f, a),
     squared_length |-> SquaredLength(a)]

\* components explored
Comps == {-1, 0, 2}

Vec3s == [x : Comps, y : Comps, z : Comps]

MathArgs(f) ==
    CASE f = "round_down_to_closest_factor" -> RoundArgs
      [] f = "AxisAlignedRect::new" -> RectNewArgs
      [] f = "AABB::get_union" -> Boxes \X Boxes
      [] f = "Vec3 operators" -> Vec3Ops \X Vec3s \X Vec3s \X Comps

MathFns == {"round_down_to_closest_factor", "AxisAlignedRect::new", "AABB::get_union",
            "Vec3 operators"}

InitMath ==
    /\ fn_called \in MathFns
    /\ fn_args \in MathArgs(fn_called)
    /\ fn_result = <<>>
    /\ SchedIdle /\ GridIdle /\ AccumIdle /\ ColorIdle /\ BvhIdle /\ SetupIdle /\ WaitIdle /\ BuildIdle
    /\ OutIdle

MathOthers == <<schedVars, mainVars, gridVars, accumVars, colorVars, bvhVars, setupVars, waitVars, buildVars, outVars>>

\* round_down_to_closest_factor(factor_to_round, factor_of)
CallRoundDown ==
    /\ fn_called = "round_down_to_closest_factor"
    /\ fn_result = <<>>
    /\ fn_result' = <<round_down_to_closest_factor(fn_args[1], fn_args[2])>>
    /\ UNCHANGED <<fn_called, fn_args, MathOthers>>

\* AxisAlignedRect::new(amin, amax, bmin, bmax, c, plane_axis, material)
CallRectNew ==
    /\ fn_called = "AxisAlignedRect::new"
    /\ fn_result = <<>>
    /\ fn_result' = <<AxisAlignedRectNew(fn_args[1], fn_args[2], fn_args[3], fn_args[4],
                                         fn_args[5], fn_args[6])>>
    /\ UNCHANGED <<fn_called, fn_args, MathOthers>>

\* AABB::get_union(box0, box1)
CallGetUnion ==
    /\ fn_called = "AABB::get_union"
    /\ fn_result = <<>>
    /\ fn_result' = <<GetUnion(fn_args[1], fn_args[2])>>
    /\ UNCHANGED <<fn_called, fn_args, MathOthers>>

\* the operators of one family on a, b and the scalar f
CallVec3Forms ==
    /\ fn_called = "Vec3 operators"
    /\ fn_result = <<>>
    /\ fn_result' = <<Vec3Forms(fn_args[1], fn_args[2], fn_args[3], fn_args[4])>>
    /\ UNCHANGED <<fn_called, fn_args, MathOthers>>

NextMath ==
    \/ CallRoundDown
    \/ CallRectNew
    \/ CallGetUnion
    \/ CallVec3Forms

SpecMath == InitMath /\ [][NextMath]_vars

Returned(f) == fn_called = f /\ fn_result # <<>>

\* C11 (rounding to a factor): for 1 <= k <= n, round_down_to_closest_factor(k, n)
\* divides n, does not exceed k, and no larger divisor of n lies at or below k.
C11_LargestDivisorBelow ==
    Returned("round_down_to_closest_factor") =>
        LET k == fn_args[1]
            n == fn_args[2]
            r == fn_result[1]
        IN  /\ n % r = 0
            /\ r <= k
            /\ \A d \in (r + 1)..k : n % d # 0

\* C14 (rectangle validation): AxisAlignedRect::new panics exactly when
\* |amin - amax| or |bmin - bmax| is below the tolerance 1e-7; otherwise it
\* returns the rectangle of the given bounds, whose two extents are non-zero.
C14_RectNewRejectsDegenerate ==
    Returned("AxisAlignedRect::new") =>
        LET amin == fn_args[1]
            amax == fn_args[2]
            bmin == fn_args[3]
            bmax == fn_args[4]
            out == fn_result[1]
        IN  /\ out.panicked <=> (Abs(amin - amax) < FLT_TOLERANCE \/ Abs(bmin - bmax) < FLT_TOLERANCE)
            /\ ~out.panicked =>
                  /\ out.rect.amin = amin /\ out.rect.amax = amax
                  /\ out.rect.bmin = bmin /\ out.rect.bmax = bmax
                  /\ out.rect.a_size # 0 /\ out.rect.b_size # 0 /\ out.rect.area # 0

\* a call with distinct bounds closer than the tolerance has panicked
C14_Witness ==
    /\ Returned("AxisAlignedRect::new")
    /\ fn_result[1].panicked
    /\ fn_args[1] # fn_args[2] /\ fn_args[3] # fn_args[4]

\* the eight corners of a box
Corners(b) == {c \in [Axes -> 0..MaxCoord] : \A i \in Axes : c[i] \in {b.min[i], b.max[i]}}

\* C16 (AABB union): for boxes A and B with min <= max, get_union(A, B) has
\* on every axis the smaller of the two minima and the larger of the two
\* maxima, contains every corner of A and of B, and has min <= max.
C16_UnionIsComponentwiseHull ==
    Returned("AABB::get_union") =>
        LET A == fn_args[1]
            B == fn_args[2]
            U == fn_result[1]
        IN  /\ \A i \in Axes :
                  /\ U.min[i] \in {A.min[i], B.min[i]}
                  /\ U.min[i] <= A.min[i] /\ U.min[i] <= B.min[i]
                  /\ U.max[i] \in {A.max[i], B.max[i]}
                  /\ U.max[i] >= A.max[i] /\ U.max[i] >= B.max[i]
                  /\ U.min[i] <= U.max[i]
            /\ \A c \in Corners(A) \cup Corners(B) :
                  \A i \in Axes : U.min[i] <= c[i] /\ c[i] <= U.max[i]

\* the union of two boxes of which neither contains the other has been built
C16_Witness ==
    /\ Returned("AABB::get_union")
    /\ fn_result[1] # fn_args[1]
    /\ fn_result[1] # fn_args[2]

\* C17 (Vec3 algebra): each operator family acts component by component, all
\* its forms (method, operator on values, operator on references, compound
\* assignment, scalar on either side) give the same vector, and
\* squared_length is x*x + y*y + z*z.
C17_Vec3Componentwise ==
    Returned("Vec3 operators") =>
        LET op == fn_args[1]
            a == fn_args[2]
            b == fn_args[3]
            f == fn_args[4]
            out == fn_result[1]
            vec == [x |-> Component(op, a.x, b.x), y |-> Component(op, a.y, b.y),
                    z |-> Component(op, a.z, b.z)]
            scaled == [x |-> Component(op, a.x, f), y |-> Component(op, a.y, f),
                       z |-> Component(op, a.z, f)]
        IN  /\ out.vec_method = vec /\ out.by_value = vec
            /\ out.by_ref = vec /\ out.assign = vec
            /\ out.float_method = scaled /\ out.float_op = scaled
            /\ out.float_assign = scaled
            /\ out.float_left = [x |-> f * a.x, y |-> f * a.y, z |-> f * a.z]
            /\ out.squared_length = a.x * a.x + a.y * a.y + a.z * a.z

\* a division of vectors with three different components has been computed
C17_Witness ==
    /\ Returned("Vec3 operators")
    /\ fn_args[1] = "div"
    /\ fn_args[3].x # fn_args[3].y /\ fn_args[3].y # fn_args[3].z
    /\ fn_args[3].x # fn_args[3].z
    /\ fn_args[2].z # 0

(***************************************************************************)
(* Tile setup: the grid loop of run() that creates one TraceSceneBatchJob  *)
(* per tile.  One pixel of the image is followed through the loop.         *)
(***************************************************************************)
\* image sizes explored: the sizes of the grid model and the one run() uses
SetupSizes == (ImageDims \X ImageDims) \cup {<<NX, NX>>}

\* coordinates of the followed pixel along an axis of n pixels
ProbeCoords(n) == IF n <= MaxDim THEN 0..(n - 1) ELSE {0, n \div 2, n - 1}

\* the pixel lies in the ranges start_xy.0..end_xy.0 and start_xy.1..end_xy.1
\* that the loops of trace() go through
TileContains(b, p) ==
    /\ b.start_xy[1] <= p[1] /\ p[1] < b.end_xy[1]
    /\ b.start_xy[2] <= p[2] /\ p[2] < b.end_xy[2]

\* the tile dimensions fitted by round_down_to_closest_factor divide the image
TileDimsFit(size) == size[1] % TaskDim(size[1]) = 0 /\ size[2] % TaskDim(size[2]) = 0

InitSetup ==
    /\ setup_size \in SetupSizes
    /\ probe \in ProbeCoords(setup_size[1]) \X ProbeCoords(setup_size[2])
    /\ task_xy = <<0, 0>>
    /\ jobs_len = 0
    /\ covers = 0
    /\ setup_pc = "loop"
    /\ SchedIdle /\ GridIdle /\ AccumIdle /\ ColorIdle /\ BvhIdle /\ MathIdle /\ WaitIdle /\ BuildIdle
    /\ OutIdle

SetupOthers == <<schedVars, mainVars, gridVars, accumVars, colorVars, bvhVars, mathVars, waitVars, buildVars, outVars>>

\* one turn of `for task_y in 0..num_tasks_xy.1 { for task_x in 0..num_tasks_xy.0`:
\* TraceSceneBatchJob::new, batches.push, jobs.push
PushTileJob ==
    /\ setup_pc = "loop"
    /\ task_xy[2] < NumTasks(setup_size[2])
    /\ task_xy[1] < NumTasks(setup_size[1])
    /\ LET b == BatchNew(task_xy[1], task_xy[2], setup_size)
       IN  covers' = covers + (IF TileContains(b, probe) THEN 1 ELSE 0)
    /\ jobs_len' = jobs_len + 1
    /\ task_xy' = IF task_xy[1] + 1 < NumTasks(setup_size[1])
                    THEN <<task_xy[1] + 1, task_xy[2]>>
                    ELSE <<0, task_xy[2] + 1>>
    /\ UNCHANGED <<setup_size, probe, setup_pc, SetupOthers>>

\* the loop ends; run() goes on to `if !config.realtime { Jobs::dispatch_jobs(&jobs) }`
EndOfGridLoop ==
    /\ setup_pc = "loop"
    /\ task_xy[2] = NumTasks(setup_size[2])
    /\ setup_pc' = "after_loop"
    /\ UNCHANGED <<setup_size, probe, task_xy, jobs_len, covers, SetupOthers>>

NextSetup ==
    \/ PushTileJob
    \/ EndOfGridLoop

SpecSetup == InitSetup /\ [][NextSetup]_vars

\* C12 (tile partition): when the grid loop has ended, every pixel of the
\* image lies in exactly one of the tiles created.
C12_TilesPartition == setup_pc = "after_loop" => covers = 1

\* C13 (fail-fast on misfit): when the fitted tile dimensions do not divide
\* the image, no tile job is ever created and setup never gets behind the
\* grid loop.
C13_NoJobOnMisfit ==
    ~TileDimsFit(setup_size) => (jobs_len = 0 /\ setup_pc # "after_loop")

(***************************************************************************)
(* One JobCounter with a waiter on an arbitrary value: a batch of K jobs   *)
(* whose workers call decrement, and one thread in wait_for_counter.  Both *)
(* functions run under the counter's mutex, so each is one step.           *)
(***************************************************************************)
\* largest batch whose counter is waited on
MaxBatchJobs == 6

InitWait ==
    /\ jc_pending \in 1..MaxBatchJobs
    /\ jc_counter = JobCounterNew(jc_pending)
    /\ jc_value \in 0..jc_pending
    /\ jc_pc = "wait"
    /\ SchedIdle /\ GridIdle /\ AccumIdle /\ ColorIdle /\ BvhIdle /\ MathIdle /\ SetupIdle /\ BuildIdle
    /\ OutIdle

WaitOthers == <<schedVars, mainVars, gridVars, accumVars, colorVars, bvhVars, mathVars, setupVars, buildVars, outVars>>

\* JobCounter::decrement by the worker that finished a job of the batch:
\* lock, fetch_sub(1), notify_one
JobDecrement ==
    /\ jc_pending > 0
    /\ jc_pending' = jc_pending - 1
    /\ jc_counter' = FetchSub1(jc_counter)
    /\ jc_pc' = NotifyOne(jc_pc)
    /\ UNCHANGED <<jc_value, WaitOthers>>

\* Jobs::wait_for_counter(counter, value) = JobCounter::wake_on_value(value):
\* one test of the loop, under the mutex.  The compare-and-swap either hits
\* (the counter becomes 1 and the call returns) or the thread blocks in
\* condvar.wait until the next notify_one
WaitForCounter ==
    /\ jc_pc = "wait"
    /\ IF CounterReached(jc_counter, jc_value)
         THEN jc_counter' = 1 /\ jc_pc' = "returned"
         ELSE jc_pc' = "wait_blocked" /\ UNCHANGED jc_counter
    /\ UNCHANGED <<jc_value, jc_pending, WaitOthers>>

NextWait ==
    \/ JobDecrement
    \/ WaitForCounter

\* every thread keeps being scheduled: the waiter when it can run, and the
\* workers, which finish every job they run
FairSpecWait ==
    InitWait /\ [][NextWait]_vars /\ WF_vars(JobDecrement) /\ WF_vars(WaitForCounter)

\* C15 (wait on any target): whenever the counter holds the value waited for,
\* wait_for_counter eventually returns.
C15_WaitReturnsOnTarget ==
    (jc_pc # "idle" /\ jc_counter = jc_value) ~> (jc_pc = "returned")

\* C27 (waiting only observes): the step in which wait_for_counter returns
\* leaves the counter at the value that was waited for.
C27_WaitLeavesCounter ==
    [][(jc_pc = "wait" /\ jc_pc' = "returned") => jc_counter' = jc_value]_vars

(***************************************************************************)
(* The recursion of BvhNode::from_list on the length of its list: which    *)
(* calls it makes and when it returns.  The thread's stack holds a bounded *)
(* number of calls.                                                        *)
(***************************************************************************)
\* longest list given to from_list
MaxListLen == 16

\* from_list calls the thread's stack can hold
MaxCallDepth == 8

InitBuild ==
    /\ build_arg \in 0..MaxListLen
    /\ build_stack = <<>>
    /\ build_pc = "call"
    /\ SchedIdle /\ GridIdle /\ AccumIdle /\ ColorIdle /\ BvhIdle
    /\ MathIdle /\ SetupIdle /\ WaitIdle /\ OutIdle

BuildOthers == <<schedVars, mainVars, gridVars, accumVars, colorVars, bvhVars,
                 mathVars, setupVars, waitVars, outVars>>

\* from_list(list) up to its first recursive call: lists of one or two
\* elements take the two base cases, every other length (zero included) takes
\* the `else` branch and calls from_list(local_list) on the first `half`
FromListEnter ==
    /\ build_pc = "call"
    /\ IF build_arg \in {1, 2}
         THEN build_pc' = "return" /\ UNCHANGED <<build_stack, build_arg>>
         ELSE /\ Len(build_stack) < MaxCallDepth
              /\ build_stack' = Append(build_stack, [len |-> build_arg, half |-> "left"])
              /\ build_arg' = SplitPoint(build_arg)
              /\ UNCHANGED build_pc
    /\ UNCHANGED BuildOthers

\* the recursion has used up the thread's stack: the process aborts
StackOverflow ==
    /\ build_pc = "call"
    /\ build_arg \notin {1, 2}
    /\ Len(build_stack) = MaxCallDepth
    /\ build_pc' = "stack_overflow"
    /\ UNCHANGED <<build_stack, build_arg, BuildOthers>>

\* a call returns its node: to the caller, which goes on with
\* from_list(second_half) or returns in turn, or to the caller of the
\* outermost call
FromListReturn ==
    /\ build_pc = "return"
    /\ IF build_stack = <<>>
         THEN build_pc' = "done" /\ UNCHANGED <<build_stack, build_arg>>
         ELSE LET top == build_stack[Len(build_stack)]
              IN  IF top.half = "left"
                    THEN /\ build_stack' = [build_stack EXCEPT ![Len(build_stack)].half = "right"]
                         /\ build_arg' = top.len - SplitPoint(top.len)
                         /\ build_pc' = "call"
                    ELSE /\ build_stack' = SubSeq(build_stack, 1, Len(build_stack) - 1)
                         /\ build_arg' = top.len
                         /\ UNCHANGED build_pc
    /\ UNCHANGED BuildOthers

NextBuild ==
    \/ FromListEnter
    \/ StackOverflow
    \/ FromListReturn

\* the thread that builds the scene keeps running
FairSpecBuild == InitBuild /\ [][NextBuild]_vars /\ WF_vars(NextBuild)

\* C25 (construction terminates): every call of from_list, whatever the
\* length of its list, eventually returns.
C25_FromListReturns == <>(build_pc = "done")

(***************************************************************************)
(* SceneOutput under the tile jobs: window_lock and remaining_tasks as     *)
(* trace() uses them, in offline mode (one dispatch, completion polled)    *)
(* and in real-time mode (one dispatch per frame, each after the wait on   *)
(* the frame before).  At most NumWorkers tile jobs run at a time.         *)
(***************************************************************************)
\* tile jobs per row and per column of the grid
MaxTasksXY == 2

\* rows of a tile
TaskRows == 2

\* frames of the real-time loop
MaxOutFrames == 2

\* const RENDER_UPDATE_LATENCY: u32 = 20
RENDER_UPDATE_LATENCY == 20

NumTileJobs == num_tasks_xy[1] * num_tasks_xy[2]
Tasks == 1..NumTileJobs

\* start_xy.1 and end_xy.1 of the t-th job of the grid loop (task_y outer,
\* task_x inner)
StartY(t) == TaskRows * ((t - 1) \div num_tasks_xy[1])
EndY(t) == StartY(t) + TaskRows

\* ENABLE_RENDER && !self.realtime
LocalEnableRender == ~out_realtime

\* the tile jobs inside update_window_framebuffer_rect
InWindowUpdate == {t \in Tasks : task_pc[t] \in {"update_row", "update_final"}}

\* the tile jobs inside trace()
InTrace == {t \in Tasks : task_pc[t] \notin {"idle", "queued", "finished"}}

InitTiles ==
    /\ out_realtime \in BOOLEAN
    /\ num_tasks_xy \in (1..MaxTasksXY) \X (1..MaxTasksXY)
    /\ window_lock = FALSE
    /\ remaining_tasks = NumTileJobs
    /\ trace_completed = FALSE
    /\ done_reports = 0
    /\ out_frame = 0
    /\ task_pc = [t \in Tasks |-> "idle"]
    /\ task_row = [t \in Tasks |-> 0]
    /\ SchedIdle /\ GridIdle /\ AccumIdle /\ ColorIdle /\ BvhIdle
    /\ MathIdle /\ SetupIdle /\ WaitIdle /\ BuildIdle

TilesOthers == <<schedVars, mainVars, gridVars, accumVars, colorVars, bvhVars,
                 mathVars, setupVars, waitVars, buildVars>>

\* Jobs::dispatch_jobs(&jobs): once before the loop in offline mode; in
\* real-time mode once per frame, after wait_for_counter on the frame before
\* has returned
DispatchJobs ==
    /\ IF out_realtime
         THEN out_frame < MaxOutFrames /\ \A t \in Tasks : task_pc[t] \in {"idle", "finished"}
         ELSE out_frame = 0
    /\ out_frame' = out_frame + 1
    /\ task_pc' = [t \in Tasks |-> "queued"]
    /\ UNCHANGED <<out_realtime, num_tasks_xy, window_lock, remaining_tasks,
                   trace_completed, done_reports, task_row, TilesOthers>>

\* a worker pops the job and enters trace()
TraceBegin(t) ==
    /\ task_pc[t] = "queued"
    /\ Cardinality(InTrace) < NumWorkers
    /\ task_pc' = [task_pc EXCEPT ![t] = "rows"]
    /\ task_row' = [task_row EXCEPT ![t] = EndY(t) - 1]
    /\ UNCHANGED <<out_realtime, num_tasks_xy, window_lock, remaining_tasks,
                   trace_completed, done_reports, out_frame, TilesOthers>>

\* where trace() goes after row j: the next row of (start..end).rev(), or past
\* the loop
AfterRow(t, j) ==
    IF j > StartY(t)
      THEN /\ task_row' = [task_row EXCEPT ![t] = j - 1]
           /\ task_pc' = [task_pc EXCEPT ![t] = "rows"]
      ELSE /\ task_row' = task_row
           /\ task_pc' = [task_pc EXCEPT ![t] = IF LocalEnableRender THEN "final" ELSE "fetch_sub"]

\* one turn of the row loop: the row is traced, then
\* `if local_enable_render && j % RENDER_UPDATE_LATENCY == 0 &&
\*     window_lock.compare_and_swap(false, true)`: compare_and_swap returns the
\* value it found, so the branch is taken when the lock was already set, and
\* a clear lock is set without the branch being taken
TraceRow(t) ==
    /\ task_pc[t] = "rows"
    /\ LET j == task_row[t]
       IN  IF LocalEnableRender /\ j % RENDER_UPDATE_LATENCY = 0
             THEN IF window_lock
                    THEN /\ task_pc' = [task_pc EXCEPT ![t] = "update_row"]
                         /\ UNCHANGED <<window_lock, task_row>>
                    ELSE /\ window_lock' = TRUE
                         /\ AfterRow(t, j)
             ELSE /\ AfterRow(t, j)
                  /\ UNCHANGED window_lock
    /\ UNCHANGED <<out_realtime, num_tasks_xy, remaining_tasks, trace_completed,
                   done_reports, out_frame, TilesOthers>>

\* update_window_and_release_lock called from the row loop:
\* update_window_framebuffer_rect, then window_lock.store(false)
UpdateWindowRow(t) ==
    /\ task_pc[t] = "update_row"
    /\ window_lock' = FALSE
    /\ AfterRow(t, task_row[t])
    /\ UNCHANGED <<out_realtime, num_tasks_xy, remaining_tasks, trace_completed,
                   done_reports, out_frame, TilesOthers>>

\* the test of `while window_lock.compare_and_swap(false, true)` after the
\* row loop
TraceFinalTest(t) ==
    /\ task_pc[t] = "final"
    /\ IF window_lock
         THEN /\ task_pc' = [task_pc EXCEPT ![t] = "update_final"]
              /\ UNCHANGED window_lock
         ELSE /\ window_lock' = TRUE
              /\ task_pc' = [task_pc EXCEPT ![t] = "fetch_sub"]
    /\ UNCHANGED <<out_realtime, num_tasks_xy, remaining_tasks, trace_completed,
                   done_reports, out_frame, task_row, TilesOthers>>

\* the body of that loop: update_window_and_release_lock
UpdateWindowFinal(t) ==
    /\ task_pc[t] = "update_final"
    /\ window_lock' = FALSE
    /\ task_pc' = [task_pc EXCEPT ![t] = "final"]
    /\ UNCHANGED <<out_realtime, num_tasks_xy, remaining_tasks, trace_completed,
                   done_reports, out_frame, task_row, TilesOthers>>

\* remaining_tasks.fetch_sub(1), the last statement of trace()
TraceFetchSub(t) ==
    /\ task_pc[t] = "fetch_sub"
    /\ remaining_tasks' = FetchSub1(remaining_tasks)
    /\ task_pc' = [task_pc EXCEPT ![t] = "finished"]
    /\ UNCHANGED <<out_realtime, num_tasks_xy, window_lock, trace_completed,
                   done_reports, out_frame, task_row, TilesOthers>>

\* the offline branch of the loop: `if !trace_completed` and
\* `remaining_tasks.compare_and_swap(0, 1) == 0`
PollCompletion ==
    /\ ~out_realtime
    /\ out_frame > 0
    /\ IF ~trace_completed /\ remaining_tasks = 0
         THEN /\ remaining_tasks' = 1
              /\ trace_completed' = TRUE
              /\ done_reports' = done_reports + 1
         ELSE UNCHANGED <<remaining_tasks, trace_completed, done_reports>>
    /\ UNCHANGED <<out_realtime, num_tasks_xy, window_lock, out_frame, task_pc,
                   task_row, TilesOthers>>

NextTiles ==
    \/ DispatchJobs
    \/ \E t \in Tasks : TraceBegin(t)
    \/ \E t \in Tasks : TraceRow(t)
    \/ \E t \in Tasks : UpdateWindowRow(t)
    \/ \E t \in Tasks : TraceFinalTest(t)
    \/ \E t \in Tasks : UpdateWindowFinal(t)
    \/ \E t \in Tasks : TraceFetchSub(t)
    \/ PollCompletion

\* the orchestrator and the workers keep running
FairSpecTiles == InitTiles /\ [][NextTiles]_vars /\ WF_vars(NextTiles)

\* C26 (window_lock is a mutex): no step leads to two tile jobs inside
\* update_window_framebuffer_rect, and a tile job enters it only by the step
\* in which it changes window_lock from false to true.
C26_WindowLockExcludes ==
    [][/\ Cardinality({t \in Tasks : task_pc'[t] \in {"update_row", "update_final"}}) <= 1
       /\ \A t \in Tasks :
             (t \notin InWindowUpdate /\ task_pc'[t] \in {"update_row", "update_final"})
                => (~window_lock /\ window_lock')
      ]_vars

\* C28 (remaining_tasks never wraps): every fetch_sub at the end of trace()
\* is executed while remaining_tasks is greater than zero.
C28_FetchSubAboveZero ==
    [][(\E t \in Tasks : TraceFetchSub(t)) => remaining_tasks > 0]_vars

(***************************************************************************)
(* Offline mode on the scheduler: run() dispatches the tile jobs once      *)
(* (the first use of the pool, whose threads start spinning), enters its   *)
(* loop and polls remaining_tasks; the workers run the jobs, each trace()  *)
(* ending with the fetch_sub.                                              *)
(***************************************************************************)
InitOffline ==
    /\ numJobs \in 1..MaxJobs
    /\ queue = <<>>
    /\ counters = <<>>
    /\ wake = FALSE
    /\ is_running = [w \in Workers |-> TRUE]
    /\ wpc = [w \in Workers |-> "loop"]
    /\ spins = [w \in Workers |-> 0]
    /\ cur = [w \in Workers |-> NoJob]
    /\ jobLock = [j \in JobIds |-> 0]
    /\ mainpc = "dispatch"
    /\ pushed = 0
    /\ scene = [time0 |-> 0, time1 |-> 1, sky_brightness |-> 0,
                disable_emissive |-> FALSE, cam |-> 0]
    /\ sceneReaders = {}
    /\ num_frames = ZeroPerJob
    /\ bufferWritten = FALSE
    /\ destroyIdx = 0
    /\ executed = ZeroPerJob
    /\ panicked = ZeroPerJob
    /\ decremented = ZeroPerJob
    /\ out_realtime = FALSE
    /\ num_tasks_xy = <<numJobs, 1>>
    /\ window_lock = FALSE
    /\ remaining_tasks = numJobs
    /\ trace_completed = FALSE
    /\ done_reports = 0
    /\ out_frame = 0
    /\ task_pc = <<>>
    /\ task_row = <<>>
    /\ GridIdle /\ AccumIdle /\ ColorIdle /\ BvhIdle
    /\ MathIdle /\ SetupIdle /\ WaitIdle /\ BuildIdle

OfflineOthers == <<gridVars, accumVars, colorVars, bvhVars, mathVars, setupVars,
                   waitVars, buildVars>>

\* dispatch_jobs returns; the counter is dropped and run() enters its loop
PushDoneOffline ==
    /\ mainpc = "push"
    /\ pushed = numJobs
    /\ mainpc' = "poll"
    /\ UNCHANGED <<schedVars, numJobs, pushed, scene, sceneReaders, num_frames,
                   bufferWritten, destroyIdx, executed, panicked, decremented,
                   outVars, OfflineOthers>>

\* the rest of trace() in offline mode: the pixels are written,
\* remaining_tasks.fetch_sub(1), run() returns, both guards drop
TraceEnd(w) ==
    /\ wpc[w] = "running"
    /\ remaining_tasks' = FetchSub1(remaining_tasks)
    /\ jobLock' = [jobLock EXCEPT ![cur[w].job] = 0]
    /\ sceneReaders' = sceneReaders \ {w}
    /\ bufferWritten' = TRUE
    /\ executed' = [executed EXCEPT ![cur[w].job] = @ + 1]
    /\ wpc' = [wpc EXCEPT ![w] = "decrement"]
    /\ UNCHANGED <<queue, counters, wake, is_running, spins, cur, mainpc, numJobs,
                   pushed, scene, num_frames, destroyIdx, panicked, decremented>>
    /\ UNCHANGED <<out_realtime, num_tasks_xy, window_lock, trace_completed,
                   done_reports, out_frame, task_pc, task_row, OfflineOthers>>

\* one turn of the loop in offline mode: `if !trace_completed` and
\* `remaining_tasks.compare_and_swap(0, 1) == 0`
PollOffline ==
    /\ mainpc = "poll"
    /\ IF ~trace_completed /\ remaining_tasks = 0
         THEN /\ remaining_tasks' = 1
              /\ trace_completed' = TRUE
              /\ done_reports' = done_reports + 1
         ELSE UNCHANGED <<remaining_tasks, trace_completed, done_reports>>
    /\ UNCHANGED <<schedVars, mainVars, OfflineOthers>>
    /\ UNCHANGED <<out_realtime, num_tasks_xy, window_lock, out_frame, task_pc, task_row>>

WorkerStepOffline(w) ==
    \/ CheckRunning(w)
    \/ PopSome(w)
    \/ PopNone(w)
    \/ SleepThread(w)
    \/ RunBegin(w)
    \/ TraceEnd(w)
    \/ Decrement(w)

MainStepOffline ==
    \/ Dispatch
    \/ Push
    \/ PushDoneOffline
    \/ PollOffline

NextOffline ==
    \/ \E w \in Workers : WorkerStepOffline(w)
    \/ MainStepOffline

\* every thread that can take a step eventually does
FairSpecOffline ==
    /\ InitOffline
    /\ [][NextOffline]_vars
    /\ WF_vars(MainStepOffline)
    /\ \A w \in Workers : WF_vars(WorkerStepOffline(w))

\* C29 (offline completion): trace_completed is set only when every tile job
\* has finished its trace(), the completion branch is taken at most once, and
\* trace_completed is eventually set.
C29_DoneWhenAllTraced ==
    /\ [](trace_completed => \A j \in 1..numJobs : executed[j] = 1)
    /\ [](done_reports <= 1)
    /\ <>trace_completed

====
